---- MODULE Spec2Model ----
(***************************************************************************)
(* Tullo real-time distribution core: the connection registry (Hub), the   *)
(* per-connection read/write pumps (Client), the Redis pub/sub bridge      *)
(* (Hub.subscribeToRedis) and the moderation bot (Bot).                    *)
(*                                                                         *)
(* One server process is modelled in full; the other processes of the      *)
(* deployment appear through what they publish on the shared bus.          *)
(*                                                                         *)
(* Spec      the hub, the pumps and the bridge, with two connections of    *)
(*           one user dialling in                                          *)
(* FairSpec  Spec with the fairness the Go scheduler gives the goroutines  *)
(* SpecBot   the moderation bot's message pipeline                         *)
(* SpecRate  the channel-chat rate limiter, both tiers                     *)
(* SpecPump  Spec with enough inbound frames to empty a connection's       *)
(*           token bucket                                                  *)
(* SpecFrames  the mark-read and typing handlers of the read loop          *)
(* SpecBridge  the way of two message events through the bridge and the    *)
(*           hub, with the history of what was published and delivered     *)
(* SpecBotFaults  the bot's pipeline with repository writes that can fail, *)
(*           under fair scheduling of its goroutines                       *)
(* SpecSweep  the local limiter's buckets and their sweep, under fairness   *)
(* SpecShutdown  the life and end of the connections, fairly scheduled     *)
(* SpecPresence  registration in two processes that share the presence     *)
(*           store, and the expiry of its records                          *)
(* SpecMuted  the bot's mute, the WebSocket send and the REST message send *)
(* SpecSpam  the bot fed five identical messages of one sender             *)
(*                                                                         *)
(* Of the inbound frames, Spec and SpecPump read message.send and          *)
(* undecodable frames, SpecFrames reads message.read and typing frames.    *)
(*  ReadPump's token bucket starts full; Spec reads at most      *)
(* MaxFrames frames, fewer than the bucket holds, so the rate-limit branch *)
(* of the read loop and the refill matter under SpecPump only.  The typing *)
(* topic is relayed as the presence topic is.                              *)
(***************************************************************************)
EXTENDS Integers, Sequences, FiniteSets, TLC

(***************************************************************************)
(* The users, conversations and connections of the checked deployment.     *)
(***************************************************************************)
Users == {"A", "B"}
Convs == {"X", "Y"}
Conns == {"a1", "a2"}
NoClient == "none"

\* claims.UserID of the token a connection was upgraded with
UserOf(c) == IF c \in {"a1", "a2"} THEN "A" ELSE "B"
\* rows of conversation_members: X holds A and B, Y holds B alone; B is
\* connected to another process
Members(conv) == IF conv = "X" THEN {"A", "B"} ELSE {"B"}

(***************************************************************************)
(* Bounds of the model.                                                    *)
(***************************************************************************)
\* capacity of Client.send (256 in NewClient), scaled
SendCap == 2
\* capacity of Hub.broadcast (256 in NewHub), scaled
BroadcastCap == 1
\* inbound frames handled over all connections and processes
MaxFrames == 1
\* calls of Hub.SendToUser
MaxDirect == 1
\* Client.maxTokens, the capacity of a connection's token bucket (20), scaled
TokenCap == 2
\* inbound frames read under SpecPump
PumpFrames == 3
BridgeFrames == 2
\* refill periods that pass between two refills of a connection, at most
MaxPeriods == 1

(***************************************************************************)
(* Events as they travel on the bus and through the outbound queues.       *)
(* origin tells which process published a message event.                   *)
(***************************************************************************)
EventMessageNew == "message.new"
EventPresenceUpdate == "presence.update"
EventError == "error"
NoEvent == [event |-> "none", id |-> 0, conv |-> "-", origin |-> "-"]
MessageNew(id, conv, origin) ==
    [event |-> EventMessageNew, id |-> id, conv |-> conv, origin |-> origin]
PresenceUpdate == [event |-> EventPresenceUpdate, id |-> 0, conv |-> "-", origin |-> "-"]
ErrorEvent == [event |-> EventError, id |-> 0, conv |-> "-", origin |-> "-"]
EventMessageRead == "message.read"
MessageRead(id, conv, origin) ==
    [event |-> EventMessageRead, id |-> id, conv |-> conv, origin |-> origin]
\* models.TypingIndicator as published on the typing topic
TypingIndicator(conv, user, isTyping) ==
    [conv |-> conv, user |-> user, isTyping |-> isTyping]
DirectEvent == [event |-> "direct", id |-> 0, conv |-> "-", origin |-> "-"]

VARIABLES
    clients,        \* Hub.clients: user -> connection
    broadcast,      \* Hub.broadcast
    hub,            \* position and locals of Hub.Run's loop
    send,           \* Client.send: the outbound queue of each connection
    closed,         \* whether Client.send has been closed
    sock,           \* whether the connection's transport is still usable
    rp,             \* position and locals of Client.ReadPump
    wp,             \* position of Client.WritePump
    bridge,         \* position and locals of Hub.subscribeToRedis
    msgChan,        \* this process's subscription to "messages"
    presenceChan,   \* this process's subscription to "presence"
    stu,            \* a call of Hub.SendToUser in flight
    crash,          \* the panic that ended the process, or "none"
    stored,         \* ids of the rows of the messages table
    nextID,         \* the next id uuid.New() hands out
    frames,         \* inbound frames handled so far
    directs,        \* SendToUser calls made so far
    lastReg,        \* history: the connection last inserted for a user
    fallback        \* history: ids of events whose member resolution failed

VARIABLES
    now,            \* the wall clock, in seconds
    recent,         \* Bot.recent: sender -> window of recent messages
    tasks,          \* the processMessage goroutines: position and locals
    received,       \* message.new events the bot has received
    deleted,        \* ids the bot passed to msgRepo.Delete
    mutes,          \* the rows the bot's AddModeration calls upsert
    logs,           \* the entries the bot passed to modRepo.AddLog, by message
    writes,         \* the repository writes each task called, with their results
    faulty,         \* whether the repositories' writes can fail in this run
    quota           \* message.new events the bot receives in this run

botVars == <<now, recent, tasks, received, deleted, mutes, logs, writes, faulty, quota>>

VARIABLES
    wall,           \* time.Now(), in milliseconds
    idle,           \* milliseconds since the rate-limit key was last written
    moves,          \* moves of the clock so far
    rl,             \* the Redis hash rl:channel_chat:<user>: tokens, last
    hasRedis,       \* whether the process has a Redis client (h.redis != nil)
    buckets,        \* ChannelChatHandler.buckets of each process, for the user
    posts,          \* the PostChat calls: position and what each tier said
    posted,         \* PostChat calls made so far
    seen            \* history: time and tokens left at the last check of a tier,
                    \* and whether the clock has only moved forward

rateVars == <<wall, idle, moves, rl, hasRedis, buckets, posts, posted, seen>>

VARIABLES
    clientTokens,   \* Client.tokens of each connection
    sinceRefill,    \* whole refill periods since Client.lastRefill
    budget,         \* inbound frames the run reads at most
    reader          \* history: the connection whose frame was read last

pumpVars == <<clientTokens, sinceRefill, budget, reader>>

VARIABLES
    readReceipts,   \* rows of message_reads: message (by conversation), user
    typingSet,      \* the Redis sets typing:<conversation>
    typingChan,     \* the typing topic, as published
    lastFrame       \* history: kind of the mark-read or typing frame read
                    \* last, and whether its repository call failed

handlerVars == <<readReceipts, typingSet, typingChan, lastFrame>>

VARIABLES
    audit,          \* whether the run keeps the delivery history below
    published,      \* history: ids of the events published on the messages
                    \* topic, in the order of publishing
    given,          \* history: <<connection, id>> for each event placed on a queue
    late,           \* history: <<connection, id>>: the connection was inserted
                    \* in the registry after the event was published
    tooLate         \* history: as late, and the event was no longer in flight

trailVars == <<audit, published, given, late, tooLate>>

VARIABLES
    presence,       \* the shared presence store: per principal the status of
                    \* the record presence:user:<id>, "none" when there is no
                    \* record (never written, or expired)
    remote          \* per principal: whether it is registered in the hub of
                    \* another process that shares the store (on), and how
                    \* many times it registered there (n)

storeVars == <<presence, remote>>

hubVars == <<storeVars, clients, broadcast, hub, send, closed, sock, rp, wp, bridge,
             msgChan, presenceChan, stu, crash, stored, nextID, frames,
             directs, lastReg, fallback, pumpVars, handlerVars, trailVars>>

vars == <<hubVars, botVars, rateVars>>

Alive == crash = "none"

\* SendToConversation holds h.mu.RLock for its whole loop
RLocked == bridge.pc \in {"stcLookup", "stcSend"}

HubIdle == [pc |-> "select", client |-> NoClient, message |-> NoEvent, todo |-> {}]
BridgeIdle == [pc |-> "select", message |-> NoEvent, ids |-> {}, client |-> NoClient]
ReadLocals(pc) == [pc |-> pc, conv |-> "-", id |-> 0, isMember |-> FALSE]
StuIdle == [pc |-> "idle", client |-> NoClient]

\* the mutant of SendOutcome: the send case is taken on a full queue too
SendOutcomeUnbounded(c) ==
    IF closed[c] THEN "panic" ELSE "sent"

\* what a non-blocking `select { case ch <- v: default: }` does on a queue
SendOutcome(c) ==
    IF closed[c] THEN "panic"
    ELSE IF Len(send[c]) < SendCap THEN "sent"
    ELSE "full"

\* r.client.Publish on a topic, as received by this process's subscription
Deliver(chan, ev) == Append(chan, ev)

\* a history set grows in the runs that keep the history
Trail(set, new) == IF audit THEN set \cup new ELSE set

\* the history of the messages topic after a publish that the bus took or not
Publish(id, ok) == IF audit /\ ok THEN Append(published, id) ELSE published

PublishedIds == {published[i] : i \in 1..Len(published)}

\* the event is still on its way to the connections of user u: on the
\* subscription, held by the bridge, or on the broadcast channel
Pending(id, u) ==
    \/ \E i \in 1..Len(msgChan) : msgChan[i].id = id
    \/ \E i \in 1..Len(broadcast) : broadcast[i].id = id
    \/ bridge.pc = "blocked" /\ bridge.message.id = id
    \/ bridge.pc = "stcLookup" /\ bridge.message.id = id /\ u \in bridge.ids

\* the state after NewHub and `go hub.Run()`, before any connection dials in
InitHub ==
    /\ clients = [u \in Users |-> NoClient]
    /\ broadcast = <<>>
    /\ hub = HubIdle
    /\ send = [c \in Conns |-> <<>>]
    /\ closed = [c \in Conns |-> FALSE]
    /\ sock = [c \in Conns |-> TRUE]
    /\ rp = [c \in Conns |-> ReadLocals("new")]
    /\ wp = [c \in Conns |-> "new"]
    /\ bridge = BridgeIdle
    /\ msgChan = <<>>
    /\ presenceChan = <<>>
    /\ stu = StuIdle
    /\ crash = "none"
    /\ stored = {}
    /\ nextID = 1
    /\ frames = 0
    /\ directs = 0
    /\ lastReg = [u \in Users |-> NoClient]
    /\ fallback = {}
    /\ readReceipts = {}
    /\ typingSet = [conv \in Convs |-> {}]
    /\ typingChan = <<>>
    /\ lastFrame = [kind |-> "-", failed |-> FALSE]
    /\ clientTokens = [c \in Conns |-> TokenCap]
    /\ sinceRefill = [c \in Conns |-> 0]
    /\ reader = NoClient
    /\ published = <<>>
    /\ given = {}
    /\ late = {}
    /\ tooLate = {}
    /\ presence = [u \in Users |-> "none"]
    /\ remote = [u \in Users |-> [on |-> FALSE, n |-> 0]]

(***************************************************************************)
(* Handler.HandleWebSocket                                                 *)
(***************************************************************************)
\* NewClient, then `h.hub.register <- client` blocks until the hub receives
HandleWebSocket(c) ==
    /\ Alive
    /\ rp[c].pc = "new"
    /\ rp' = [rp EXCEPT ![c].pc = "registering"]
    /\ clientTokens' = [clientTokens EXCEPT ![c] = TokenCap]
    /\ sinceRefill' = [sinceRefill EXCEPT ![c] = 0]
    /\ UNCHANGED <<botVars, rateVars, trailVars, storeVars, handlerVars, budget, reader, clients, broadcast, hub, send, closed, sock, wp, bridge,
                   msgChan, presenceChan, stu, crash, stored, nextID, frames,
                   directs, lastReg, fallback>>

(***************************************************************************)
(* Hub.Run                                                                 *)
(***************************************************************************)
\* `case client := <-h.register`: the rendezvous releases the handler, which
\* starts both pumps while the hub runs the case body
HubRecvRegister(c) ==
    /\ Alive
    /\ hub.pc = "select"
    /\ rp[c].pc = "registering"
    /\ hub' = [HubIdle EXCEPT !.pc = "register", !.client = c]
    /\ rp' = [rp EXCEPT ![c].pc = "read"]
    /\ wp' = [wp EXCEPT ![c] = "run"]
    /\ UNCHANGED <<botVars, rateVars, trailVars, storeVars, handlerVars, pumpVars, clients, broadcast, send, closed, sock, bridge, msgChan,
                   presenceChan, stu, crash, stored, nextID, frames, directs,
                   lastReg, fallback>>

\* the mutant of RegisterEntry: an entry already present is kept
RegisterEntryFirstWins(old, c) == IF old = NoClient THEN c ELSE old

\* `h.clients[client.userID] = client`: the entry the register case leaves
RegisterEntry(old, c) == c

\* Set on the key presence:user:<id>; the store is written by the hub and
\* read by the REST handlers only, so it is followed in the runs that keep
\* the history
StoreSet(u, status) ==
    IF audit THEN [presence EXCEPT ![u] = status] ELSE presence

\* SetUserOnline: status "online", expiry 5 minutes
SetUserOnline(u) == StoreSet(u, "online")

\* SetUserOffline: status "offline", expiry 24 hours
SetUserOffline(u) == StoreSet(u, "offline")

\* GetUserPresence: a missing record reads as "offline"
GetUserPresence(u) == IF presence[u] = "none" THEN "offline" ELSE presence[u]

\* body of the register case: insert under Lock, publish "online" (the
\* publish's error is ignored)
HubRegister ==
    /\ Alive
    /\ hub.pc = "register"
    /\ ~RLocked
    /\ LET c == hub.client
           u == UserOf(c)
       IN /\ clients' = [clients EXCEPT ![u] = RegisterEntry(clients[u], c)]
          /\ lastReg' = [lastReg EXCEPT ![u] = c]
          /\ late' = Trail(late, {<<c, id>> : id \in PublishedIds})
          /\ tooLate' = Trail(tooLate, {<<c, id>> : id \in {i \in PublishedIds : ~Pending(i, u)}})
          /\ presence' = SetUserOnline(u)
    /\ \E ok \in BOOLEAN :
          presenceChan' = IF ok THEN Deliver(presenceChan, PresenceUpdate)
                          ELSE presenceChan
    /\ hub' = HubIdle
    /\ UNCHANGED <<botVars, rateVars, remote, audit, published, given, handlerVars, pumpVars, broadcast, send, closed, sock, rp, wp, bridge, msgChan, stu,
                   crash, stored, nextID, frames, directs, fallback>>

\* `case client := <-h.unregister`: ReadPump's deferred send is received,
\* after which its deferred c.conn.Close() runs
HubRecvUnregister(c) ==
    /\ Alive
    /\ hub.pc = "select"
    /\ rp[c].pc = "unregister"
    /\ hub' = [HubIdle EXCEPT !.pc = "unregister", !.client = c]
    /\ rp' = [rp EXCEPT ![c].pc = "done"]
    /\ sock' = [sock EXCEPT ![c] = FALSE]
    /\ UNCHANGED <<botVars, rateVars, trailVars, storeVars, handlerVars, pumpVars, clients, broadcast, send, closed, wp, bridge, msgChan,
                   presenceChan, stu, crash, stored, nextID, frames, directs,
                   lastReg, fallback>>

\* `if _, ok := h.clients[client.userID]; ok`: the test the unregister case
\* makes before it deletes the entry and closes client.send
UnregisterHit(c) == clients[UserOf(c)] # NoClient

\* body of the unregister case: delete and close under Lock, publish
\* "offline"; closing a closed channel panics
HubUnregister ==
    /\ Alive
    /\ hub.pc = "unregister"
    /\ ~RLocked
    /\ LET c == hub.client
           u == UserOf(c)
       IN IF UnregisterHit(c) /\ closed[c]
          THEN /\ clients' = [clients EXCEPT ![u] = NoClient]
               /\ crash' = "close of closed channel"
               /\ UNCHANGED <<closed, presenceChan, hub, presence>>
          ELSE /\ clients' = IF UnregisterHit(c)
                             THEN [clients EXCEPT ![u] = NoClient]
                             ELSE clients
               /\ closed' = IF UnregisterHit(c)
                            THEN [closed EXCEPT ![c] = TRUE]
                            ELSE closed
               /\ \E ok \in BOOLEAN :
                     presenceChan' = IF ok THEN Deliver(presenceChan, PresenceUpdate)
                                     ELSE presenceChan
               /\ presence' = SetUserOffline(u)
               /\ hub' = HubIdle
               /\ UNCHANGED crash
    /\ UNCHANGED <<botVars, rateVars, trailVars, remote, handlerVars, pumpVars, broadcast, send, sock, rp, wp, bridge, msgChan, stu, stored,
                   nextID, frames, directs, lastReg, fallback>>

\* `case message := <-h.broadcast`: the range runs over the entries present
HubRecvBroadcast ==
    /\ Alive
    /\ hub.pc = "select"
    /\ broadcast # <<>>
    /\ LET todo == {u \in Users : clients[u] # NoClient}
       IN hub' = IF todo = {} THEN HubIdle
                 ELSE [pc |-> "broadcast", client |-> NoClient,
                       message |-> Head(broadcast), todo |-> todo]
    /\ broadcast' = Tail(broadcast)
    /\ UNCHANGED <<botVars, rateVars, trailVars, storeVars, handlerVars, pumpVars, clients, send, closed, sock, rp, wp, bridge, msgChan,
                   presenceChan, stu, crash, stored, nextID, frames, directs,
                   lastReg, fallback>>

\* the outcomes of `delete(h.clients, ...)` under RLock: SendToConversation
\* reads the map under its own RLock, and the runtime may detect the
\* unsynchronised write
DeleteOutcomes == IF bridge.pc = "stcLookup" THEN {"deleted", "fatal"} ELSE {"deleted"}

\* one iteration of the range in the broadcast case:
\* `select { case client.send <- message: default: close; delete }`
HubBroadcast ==
    /\ Alive
    /\ hub.pc = "broadcast"
    /\ \E u \in hub.todo :
          LET c == clients[u]
              rest == hub.todo \ {u}
              after == IF rest = {} THEN HubIdle ELSE [hub EXCEPT !.todo = rest]
          IN CASE SendOutcome(c) = "sent" ->
                    /\ send' = [send EXCEPT ![c] = Append(send[c], hub.message)]
                    /\ given' = Trail(given, IF hub.message.id = 0 THEN {}
                                             ELSE {<<c, hub.message.id>>})
                    /\ hub' = after
                    /\ UNCHANGED <<clients, closed, crash>>
               [] SendOutcome(c) = "full" ->
                    /\ closed' = [closed EXCEPT ![c] = TRUE]
                    /\ \E outcome \in DeleteOutcomes :
                          IF outcome = "deleted"
                          THEN /\ clients' = [clients EXCEPT ![u] = NoClient]
                               /\ hub' = after
                               /\ UNCHANGED crash
                          ELSE /\ crash' = "concurrent map read and map write"
                               /\ UNCHANGED <<clients, hub>>
                    /\ UNCHANGED <<send, given>>
               [] SendOutcome(c) = "panic" ->
                    /\ crash' = "send on closed channel"
                    /\ UNCHANGED <<clients, closed, send, hub, given>>
    /\ UNCHANGED <<botVars, rateVars, storeVars, audit, published, late, tooLate, handlerVars, pumpVars, broadcast, sock, rp, wp, bridge, msgChan, presenceChan, stu,
                   stored, nextID, frames, directs, lastReg, fallback>>


(***************************************************************************)
(* Client.ReadPump and the event handlers it calls                         *)
(***************************************************************************)
\* ReadPump's refill after `periods` whole refill periods since lastRefill:
\* `c.tokens += add`, capped at maxTokens
Refill(t, periods) ==
    IF periods >= 1
    THEN IF t + periods > TokenCap THEN TokenCap ELSE t + periods
    ELSE t

\* `if c.tokens <= 0 { c.sendError("rate_limited"); continue }`
HasToken(t) == ~(t <= 0)

\* ReadPump reads a frame of c and refills the bucket, lastRefill moving
\* only when a whole period has passed; the frame is handled, for one token,
\* when the bucket has one
ReadFrame(c, handled) ==
    /\ Alive
    /\ rp[c].pc = "read"
    /\ sock[c]
    /\ frames < budget
    /\ frames' = frames + 1
    /\ reader' = c
    /\ LET t == Refill(clientTokens[c], sinceRefill[c])
       IN /\ HasToken(t) = handled
          /\ clientTokens' = [clientTokens EXCEPT ![c] = IF handled THEN t - 1 ELSE t]
    /\ sinceRefill' = [sinceRefill EXCEPT ![c] = 0]
    /\ UNCHANGED budget

\* a refill period of c's bucket passes while ReadPump waits for a frame
RefillPeriod(c) ==
    /\ Alive
    /\ rp[c].pc = "read"
    /\ sinceRefill[c] < MaxPeriods
    /\ sinceRefill' = [sinceRefill EXCEPT ![c] = @ + 1]
    /\ UNCHANGED <<botVars, rateVars, trailVars, storeVars, handlerVars, clientTokens, budget, reader, clients, broadcast,
                   hub, send, closed, sock, rp, wp, bridge, msgChan, presenceChan,
                   stu, crash, stored, nextID, frames, directs, lastReg, fallback>>

\* Client.sendError: a non-blocking send on the connection's own queue
sendError(c) ==
    CASE SendOutcome(c) = "sent" ->
            /\ send' = [send EXCEPT ![c] = Append(send[c], ErrorEvent)]
            /\ UNCHANGED crash
      [] SendOutcome(c) = "full" ->
            UNCHANGED <<send, crash>>
      [] SendOutcome(c) = "panic" ->
            /\ crash' = "send on closed channel"
            /\ UNCHANGED send

\* the mutant of MemberGate: the membership check lets every frame through
MemberGateOpen(err, isMember) == TRUE

\* `if err != nil || !isMember { sendError; return }`
MemberGate(err, isMember) == ~err /\ isMember

\* `if err := c.msgRepo.Create(message); err != nil { sendError; return }`
CreateGate(err) == ~err

\* a message.send frame: handleMessageSend up to the membership check
ReadMessageSend(c, conv) ==
    /\ ReadFrame(c, TRUE)
    /\ \E err \in BOOLEAN :
          LET isMember == ~err /\ UserOf(c) \in Members(conv)
          IN IF MemberGate(err, isMember)
             THEN /\ rp' = [rp EXCEPT ![c] = [pc |-> "create", conv |-> conv,
                                               id |-> nextID, isMember |-> isMember]]
                  /\ nextID' = nextID + 1
                  /\ UNCHANGED <<send, crash>>
             ELSE /\ sendError(c)
                  /\ UNCHANGED <<rp, nextID>>
    /\ UNCHANGED <<botVars, rateVars, trailVars, storeVars, handlerVars, clients, broadcast, hub, closed, sock, wp, bridge, msgChan,
                   presenceChan, stu, stored, directs, lastReg, fallback>>

\* handleMessageSend: c.msgRepo.Create
CreateMessage(c) ==
    /\ Alive
    /\ rp[c].pc = "create"
    /\ \E err \in BOOLEAN :
          IF CreateGate(err)
          THEN /\ stored' = IF err THEN stored ELSE stored \cup {rp[c].id}
               /\ rp' = [rp EXCEPT ![c].pc = "publish"]
               /\ UNCHANGED <<send, crash>>
          ELSE /\ sendError(c)
               /\ rp' = [rp EXCEPT ![c] = ReadLocals("read")]
               /\ UNCHANGED stored
    /\ UNCHANGED <<botVars, rateVars, trailVars, storeVars, handlerVars, pumpVars, clients, broadcast, hub, closed, sock, wp, bridge, msgChan,
                   presenceChan, stu, nextID, frames, directs, lastReg, fallback>>

\* handleMessageSend: c.redis.PublishMessage, its error ignored
PublishMessage(c) ==
    /\ Alive
    /\ rp[c].pc = "publish"
    /\ \E ok \in BOOLEAN :
          /\ msgChan' = IF ok THEN Deliver(msgChan, MessageNew(rp[c].id, rp[c].conv, "local"))
                        ELSE msgChan
          /\ published' = Publish(rp[c].id, ok)
    /\ rp' = [rp EXCEPT ![c] = ReadLocals("read")]
    /\ UNCHANGED <<botVars, rateVars, storeVars, audit, given, late, tooLate, handlerVars, pumpVars, clients, broadcast, hub, send, closed, sock, wp, bridge,
                   presenceChan, stu, crash, stored, nextID, frames, directs,
                   lastReg, fallback>>

\* a message.send frame accepted, persisted and published by the handler of
\* another process: the event arrives on this process's subscription
RemotePublishMessage(conv) ==
    /\ Alive
    /\ frames < budget
    /\ frames' = frames + 1
    /\ nextID' = nextID + 1
    /\ stored' = stored \cup {nextID}
    /\ msgChan' = Deliver(msgChan, MessageNew(nextID, conv, "remote"))
    /\ published' = Publish(nextID, TRUE)
    /\ UNCHANGED <<botVars, rateVars, storeVars, audit, given, late, tooLate, handlerVars, pumpVars, clients, broadcast, hub, send, closed, sock, rp, wp, bridge,
                   presenceChan, stu, crash, directs, lastReg, fallback>>

\* a frame that does not decode, or whose event tag is unknown
ReadBadFrame(c) ==
    /\ ReadFrame(c, TRUE)
    /\ sendError(c)
    /\ UNCHANGED <<botVars, rateVars, trailVars, storeVars, handlerVars, clients, broadcast, hub, closed, sock, rp, wp, bridge,
                   msgChan, presenceChan, stu, stored, nextID, directs, lastReg, fallback>>

\* a frame that finds the bucket empty: it is dropped, the sender is told
ReadRateLimited(c) ==
    /\ ReadFrame(c, FALSE)
    /\ sendError(c)
    /\ UNCHANGED <<botVars, rateVars, trailVars, storeVars, handlerVars, clients, broadcast, hub, closed, sock, rp, wp, bridge,
                   msgChan, presenceChan, stu, stored, nextID, directs, lastReg, fallback>>

\* c.conn.ReadMessage returns an error because the transport was closed by
\* WritePump: leave the loop, the deferred function blocks on
\* `c.hub.unregister <- c`
ReadError(c) ==
    /\ Alive
    /\ rp[c].pc = "read"
    /\ ~sock[c]
    /\ rp' = [rp EXCEPT ![c].pc = "unregister"]
    /\ UNCHANGED <<botVars, rateVars, trailVars, storeVars, handlerVars, pumpVars, clients, broadcast, hub, send, closed, sock, wp, bridge,
                   msgChan, presenceChan, stu, crash, stored, nextID, frames,
                   directs, lastReg, fallback>>

\* the peer goes away or the network fails: c.conn.ReadMessage returns an
\* error and the read loop is left the same way
TransportFailure(c) ==
    /\ Alive
    /\ rp[c].pc = "read"
    /\ sock[c]
    /\ sock' = [sock EXCEPT ![c] = FALSE]
    /\ rp' = [rp EXCEPT ![c].pc = "unregister"]
    /\ UNCHANGED <<botVars, rateVars, trailVars, storeVars, handlerVars, pumpVars, clients, broadcast, hub, send, closed, wp, bridge,
                   msgChan, presenceChan, stu, crash, stored, nextID, frames,
                   directs, lastReg, fallback>>

(***************************************************************************)
(* Client.handleMessageRead, handleTypingStart, handleTypingStop           *)
(***************************************************************************)
\* a message.read frame for a message of conversation conv: MarkAsRead, then
\* the read receipt is published, the publish error ignored
ReadMessageRead(c, conv) ==
    /\ ReadFrame(c, TRUE)
    /\ \E err \in BOOLEAN :
          /\ lastFrame' = [kind |-> EventMessageRead, failed |-> err]
          /\ IF err
             THEN /\ sendError(c)
                  /\ UNCHANGED <<readReceipts, msgChan, nextID, published>>
             ELSE /\ readReceipts' = readReceipts \cup {<<conv, UserOf(c)>>}
                  /\ nextID' = nextID + 1
                  /\ \E ok \in BOOLEAN :
                        /\ msgChan' = IF ok
                                      THEN Deliver(msgChan, MessageRead(nextID, conv, "local"))
                                      ELSE msgChan
                        /\ published' = Publish(nextID, ok)
                  /\ UNCHANGED <<send, crash>>
    /\ UNCHANGED <<botVars, rateVars, storeVars, audit, given, late, tooLate, typingSet, typingChan, clients, broadcast, hub,
                   closed, sock, rp, wp, bridge, presenceChan, stu, stored, directs,
                   lastReg, fallback>>

\* handleTypingStart: `if err != nil || !isMember { return }`
TypingGate(err, isMember) == ~err /\ isMember

\* a typing.start frame: membership check, SetTyping, PublishTyping
ReadTypingStart(c, conv) ==
    /\ ReadFrame(c, TRUE)
    /\ \E err \in BOOLEAN :
          LET isMember == ~err /\ UserOf(c) \in Members(conv)
          IN /\ lastFrame' = [kind |-> "typing.start", failed |-> err]
             /\ IF TypingGate(err, isMember)
                THEN /\ \E ok \in BOOLEAN :
                           typingSet' = IF ok
                                        THEN [typingSet EXCEPT ![conv] = @ \cup {UserOf(c)}]
                                        ELSE typingSet
                     /\ \E ok \in BOOLEAN :
                           typingChan' = IF ok
                                         THEN Deliver(typingChan,
                                                      TypingIndicator(conv, UserOf(c), TRUE))
                                         ELSE typingChan
                ELSE UNCHANGED <<typingSet, typingChan>>
    /\ UNCHANGED <<botVars, rateVars, trailVars, storeVars, readReceipts, clients, broadcast, hub, send,
                   closed, sock, rp, wp, bridge, msgChan, presenceChan, stu, crash,
                   stored, nextID, directs, lastReg, fallback>>

\* a typing.stop frame: RemoveTyping, PublishTyping
ReadTypingStop(c, conv) ==
    /\ ReadFrame(c, TRUE)
    /\ lastFrame' = [kind |-> "typing.stop", failed |-> FALSE]
    /\ \E ok \in BOOLEAN :
          typingSet' = IF ok THEN [typingSet EXCEPT ![conv] = @ \ {UserOf(c)}]
                       ELSE typingSet
    /\ \E ok \in BOOLEAN :
          typingChan' = IF ok
                        THEN Deliver(typingChan, TypingIndicator(conv, UserOf(c), FALSE))
                        ELSE typingChan
    /\ UNCHANGED <<botVars, rateVars, trailVars, storeVars, readReceipts, clients, broadcast, hub, send,
                   closed, sock, rp, wp, bridge, msgChan, presenceChan, stu, crash,
                   stored, nextID, directs, lastReg, fallback>>

(***************************************************************************)
(* Client.WritePump                                                        *)
(***************************************************************************)
\* `case message, ok := <-c.send` with ok: write it (the write fails on a
\* dead transport and the pump returns)
WriteMessage(c) ==
    /\ Alive
    /\ wp[c] = "run"
    /\ send[c] # <<>>
    /\ send' = [send EXCEPT ![c] = Tail(send[c])]
    /\ wp' = IF sock[c] THEN wp ELSE [wp EXCEPT ![c] = "done"]
    /\ UNCHANGED <<botVars, rateVars, trailVars, storeVars, handlerVars, pumpVars, clients, broadcast, hub, closed, sock, rp, bridge, msgChan,
                   presenceChan, stu, crash, stored, nextID, frames, directs,
                   lastReg, fallback>>

\* `case message, ok := <-c.send` with !ok: close frame, return, conn.Close()
WriteClose(c) ==
    /\ Alive
    /\ wp[c] = "run"
    /\ send[c] = <<>>
    /\ closed[c]
    /\ wp' = [wp EXCEPT ![c] = "done"]
    /\ sock' = [sock EXCEPT ![c] = FALSE]
    /\ UNCHANGED <<botVars, rateVars, trailVars, storeVars, handlerVars, pumpVars, clients, broadcast, hub, send, closed, rp, bridge, msgChan,
                   presenceChan, stu, crash, stored, nextID, frames, directs,
                   lastReg, fallback>>

\* `case <-ticker.C`: the ping cannot be written on a dead transport
WritePingFailure(c) ==
    /\ Alive
    /\ wp[c] = "run"
    /\ ~sock[c]
    /\ wp' = [wp EXCEPT ![c] = "done"]
    /\ UNCHANGED <<botVars, rateVars, trailVars, storeVars, handlerVars, pumpVars, clients, broadcast, hub, send, closed, sock, rp, bridge,
                   msgChan, presenceChan, stu, crash, stored, nextID, frames,
                   directs, lastReg, fallback>>

(***************************************************************************)
(* Hub.subscribeToRedis                                                    *)
(***************************************************************************)
\* the mutant of ToBroadcast: the send is given up while the channel is full
ToBroadcastDrop(ev) ==
    IF Len(broadcast) < BroadcastCap
    THEN /\ broadcast' = Append(broadcast, ev)
         /\ bridge' = BridgeIdle
    ELSE /\ bridge' = BridgeIdle
         /\ UNCHANGED broadcast

\* `h.broadcast <- payload`: blocks while the channel is full
ToBroadcast(ev) ==
    IF Len(broadcast) < BroadcastCap
    THEN /\ broadcast' = Append(broadcast, ev)
         /\ bridge' = BridgeIdle
    ELSE /\ bridge' = [BridgeIdle EXCEPT !.pc = "blocked",
                                                             !.message = ev]
         /\ UNCHANGED broadcast

\* the mutant of Scoped: every decoded event takes the scoped path
ScopedAnyEvent(ev, err) == ~err

\* whether the messages case takes the conversation-scoped path
Scoped(ev, err) == ev.event = EventMessageNew /\ ~err

\* the mutant of Recipients: every user is taken for a member
RecipientsEveryone(ev) == Users

\* `memberIDs, err := h.convRepo.GetMembers(...)`: whom the scoped path serves
Recipients(ev) == Members(ev.conv)

\* `case msg := <-msgChan`
BridgeRecvMessage ==
    /\ Alive
    /\ bridge.pc = "select"
    /\ msgChan # <<>>
    /\ msgChan' = Tail(msgChan)
    /\ LET ev == Head(msgChan)
       IN \E err \in BOOLEAN :
             IF Scoped(ev, err)
             THEN /\ bridge' = [pc |-> "stcLookup", message |-> ev,
                                ids |-> Recipients(ev), client |-> NoClient]
                  /\ UNCHANGED <<broadcast, fallback>>
             ELSE /\ ToBroadcast(ev)
                  /\ fallback' = fallback \cup {ev.id}
    /\ UNCHANGED <<botVars, rateVars, trailVars, storeVars, handlerVars, pumpVars, clients, hub, send, closed, sock, rp, wp, presenceChan, stu,
                   crash, stored, nextID, frames, directs, lastReg>>

\* `case presence := <-presenceChan`
BridgeRecvPresence ==
    /\ Alive
    /\ bridge.pc = "select"
    /\ presenceChan # <<>>
    /\ presenceChan' = Tail(presenceChan)
    /\ ToBroadcast(Head(presenceChan))
    /\ UNCHANGED <<botVars, rateVars, trailVars, storeVars, handlerVars, pumpVars, clients, hub, send, closed, sock, rp, wp, msgChan, stu,
                   crash, stored, nextID, frames, directs, lastReg, fallback>>

\* the blocked `h.broadcast <- payload` goes through
BridgeUnblock ==
    /\ Alive
    /\ bridge.pc = "blocked"
    /\ Len(broadcast) < BroadcastCap
    /\ broadcast' = Append(broadcast, bridge.message)
    /\ bridge' = BridgeIdle
    /\ UNCHANGED <<botVars, rateVars, trailVars, storeVars, handlerVars, pumpVars, clients, hub, send, closed, sock, rp, wp, msgChan,
                   presenceChan, stu, crash, stored, nextID, frames, directs,
                   lastReg, fallback>>

(***************************************************************************)
(* Hub.SendToConversation, as called by the bridge                         *)
(***************************************************************************)
\* the mutant of Remaining: the member just looked up stays in the list
RemainingAll(ids, id) == ids

\* `for _, memberID := range memberIDs`: the members still to serve
Remaining(ids, id) == ids \ {id}

AfterMember(rest) ==
    IF rest = {} THEN BridgeIdle
    ELSE [bridge EXCEPT !.pc = "stcLookup", !.ids = rest, !.client = NoClient]

\* `if client, ok := h.clients[memberID]; ok`
SendToConversationLookup ==
    /\ Alive
    /\ bridge.pc = "stcLookup"
    /\ \E id \in bridge.ids :
          LET c == clients[id]
              rest == Remaining(bridge.ids, id)
          IN bridge' = IF c = NoClient THEN AfterMember(rest)
                          ELSE [bridge EXCEPT !.pc = "stcSend", !.ids = rest,
                                                 !.client = c]
    /\ UNCHANGED <<botVars, rateVars, trailVars, storeVars, handlerVars, pumpVars, clients, broadcast, hub, send, closed, sock, rp, wp, msgChan,
                   presenceChan, stu, crash, stored, nextID, frames, directs,
                   lastReg, fallback>>

\* `select { case client.send <- data: default: }`
SendToConversationSend ==
    /\ Alive
    /\ bridge.pc = "stcSend"
    /\ LET c == bridge.client
       IN CASE SendOutcome(c) = "sent" ->
                 /\ send' = [send EXCEPT ![c] = Append(send[c], bridge.message)]
                 /\ given' = Trail(given, {<<c, bridge.message.id>>})
                 /\ bridge' = AfterMember(bridge.ids)
                 /\ UNCHANGED crash
            [] SendOutcome(c) = "full" ->
                 /\ bridge' = AfterMember(bridge.ids)
                 /\ UNCHANGED <<send, crash, given>>
            [] SendOutcome(c) = "panic" ->
                 /\ crash' = "send on closed channel"
                 /\ bridge' = [bridge EXCEPT !.pc = "panic"]
                 /\ UNCHANGED <<send, given>>
    /\ UNCHANGED <<botVars, rateVars, storeVars, audit, published, late, tooLate, handlerVars, pumpVars, clients, broadcast, hub, closed, sock, rp, wp, msgChan,
                   presenceChan, stu, stored, nextID, frames, directs, lastReg, fallback>>

(***************************************************************************)
(* Hub.SendToUser, called from any goroutine of the process                *)
(***************************************************************************)
\* `h.mu.RLock(); client, ok := h.clients[userID]; h.mu.RUnlock()`
SendToUserLookup(u) ==
    /\ Alive
    /\ stu.pc = "idle"
    /\ directs < MaxDirect
    /\ directs' = directs + 1
    /\ stu' = IF clients[u] = NoClient THEN StuIdle
                                 ELSE [pc |-> "send", client |-> clients[u]]
    /\ UNCHANGED <<botVars, rateVars, trailVars, storeVars, handlerVars, pumpVars, clients, broadcast, hub, send, closed, sock, rp, wp, bridge,
                   msgChan, presenceChan, crash, stored, nextID, frames, lastReg, fallback>>

\* `if ok { select { case client.send <- data: default: } }`
SendToUserSend ==
    /\ Alive
    /\ stu.pc = "send"
    /\ LET c == stu.client
       IN CASE SendOutcome(c) = "sent" ->
                 /\ send' = [send EXCEPT ![c] = Append(send[c], DirectEvent)]
                 /\ stu' = StuIdle
                 /\ UNCHANGED crash
            [] SendOutcome(c) = "full" ->
                 /\ stu' = StuIdle
                 /\ UNCHANGED <<send, crash>>
            [] SendOutcome(c) = "panic" ->
                 /\ crash' = "send on closed channel"
                 /\ stu' = [stu EXCEPT !.pc = "panic"]
                 /\ UNCHANGED send
    /\ UNCHANGED <<botVars, rateVars, trailVars, storeVars, handlerVars, pumpVars, clients, broadcast, hub, closed, sock, rp, wp, bridge,
                   msgChan, presenceChan, stored, nextID, frames, directs,
                   lastReg, fallback>>

NextHub ==
    \/ \E c \in Conns : HandleWebSocket(c)
    \/ \E c \in Conns : HubRecvRegister(c)
    \/ HubRegister
    \/ \E c \in Conns : HubRecvUnregister(c)
    \/ HubUnregister
    \/ HubRecvBroadcast
    \/ HubBroadcast
    \/ \E c \in Conns, conv \in Convs : ReadMessageSend(c, conv)
    \/ \E c \in Conns : CreateMessage(c)
    \/ \E c \in Conns : PublishMessage(c)
    \/ \E conv \in Convs : RemotePublishMessage(conv)
    \/ \E c \in Conns : ReadBadFrame(c)
    \/ \E c \in Conns : ReadError(c)
    \/ \E c \in Conns : TransportFailure(c)
    \/ \E c \in Conns : WriteMessage(c)
    \/ \E c \in Conns : WriteClose(c)
    \/ \E c \in Conns : WritePingFailure(c)
    \/ BridgeRecvMessage
    \/ BridgeRecvPresence
    \/ BridgeUnblock
    \/ SendToConversationLookup
    \/ SendToConversationSend
    \/ \E u \in Users : SendToUserLookup(u)
    \/ SendToUserSend

\* the connections' life with undecodable and rate-limited frames and the
\* passing of refill periods, and the presence events the hub broadcasts
NextPump ==
    \/ \E c \in Conns : HandleWebSocket(c)
    \/ \E c \in Conns : HubRecvRegister(c)
    \/ HubRegister
    \/ \E c \in Conns : HubRecvUnregister(c)
    \/ HubUnregister
    \/ HubRecvBroadcast
    \/ HubBroadcast
    \/ \E c \in Conns : ReadBadFrame(c)
    \/ \E c \in Conns : ReadRateLimited(c)
    \/ \E c \in Conns : RefillPeriod(c)
    \/ \E c \in Conns : ReadError(c)
    \/ \E c \in Conns : TransportFailure(c)
    \/ \E c \in Conns : WriteMessage(c)
    \/ \E c \in Conns : WriteClose(c)
    \/ \E c \in Conns : WritePingFailure(c)
    \/ BridgeRecvPresence
    \/ BridgeUnblock

\* the connections with mark-read and typing frames and the passing of
\* refill periods, and the presence events the hub broadcasts
NextFrames ==
    \/ \E c \in Conns : HandleWebSocket(c)
    \/ \E c \in Conns : HubRecvRegister(c)
    \/ HubRegister
    \/ HubRecvBroadcast
    \/ HubBroadcast
    \/ \E c \in Conns, conv \in Convs : ReadMessageRead(c, conv)
    \/ \E c \in Conns, conv \in Convs : ReadTypingStart(c, conv)
    \/ \E c \in Conns, conv \in Convs : ReadTypingStop(c, conv)
    \/ \E c \in Conns : RefillPeriod(c)
    \/ BridgeRecvPresence
    \/ BridgeUnblock

(***************************************************************************)
(* The moderation bot (Bot.Run, Bot.processMessage).                       *)
(***************************************************************************)
\* message bodies and banned words are strings: sequences of characters
Hi == <<"h", "i">>
Shout == <<"a", "B", "A", "D", "e">>
NoWord == <<"-">>

\* rows of channel_banned_words: X bans "Bad" and "ab", Y bans nothing
BannedWords(conv) == IF conv = "X" THEN {<<"B", "a", "d">>, <<"a", "b">>} ELSE {}

\* the message.new events the bot is fed: sender, conversation, body
Inputs ==
    { <<"A", "X", Hi>>, <<"B", "X", Hi>>, <<"A", "X", Shout>>, <<"A", "Y", Shout>> }

\* message.new events the bot receives
MaxMsgs == 4
\* message.new events the bot receives in the runs about repeated spam
MaxRepeats == 5
\* the tasks of a run
TaskIds == 1..(IF MaxRepeats > MaxMsgs THEN MaxRepeats ELSE MaxMsgs)
\* seconds the clock advances at a time
TickLen == 10
\* last clock value
MaxNow == 20

\* `10*time.Second`
Window == 10
\* `repeatCount >= 3`
SpamThreshold == 3
\* `5 * time.Minute`, in seconds
MuteLen == 300

\* unicode.ToLower on the characters of the model's alphabet
ToLowerChar(ch) ==
    CASE ch = "A" -> "a"
      [] ch = "B" -> "b"
      [] ch = "D" -> "d"
      [] OTHER -> ch

\* the mutant of ToLower: case is left as it is
ToLowerIdentity(s) == s

\* strings.ToLower
ToLower(s) == [i \in 1..Len(s) |-> ToLowerChar(s[i])]

\* strings.Contains
Contains(s, substr) ==
    \E i \in 0..(Len(s) - Len(substr)) : SubSeq(s, i + 1, i + Len(substr)) = substr

\* the banned words the loop of processMessage can stop at: the rows come in
\* no fixed order, so any matching row can be the first one met
Matches(body, words) ==
    {w \in words : Contains(ToLower(body), ToLower(w))}

\* the mutant of PruneKeeps: no entry is ever dropped
PruneKeepsAll(age) == TRUE

\* `if now.Sub(rm.ts) <= 10*time.Second`
PruneKeeps(age) == age <= Window

\* the mutant of Pruned: the window is started afresh
PrunedAway(arr, t) == <<>>

\* the entries of the window that survive the pruning at time t
Pruned(arr, t) == SelectSeq(arr, LAMBDA rm : PruneKeeps(t - rm.ts))

\* repeatCount: the surviving entries whose body equals the new body
RepeatCount(arr, t, body) ==
    Len(SelectSeq(Pruned(arr, t), LAMBDA rm : rm.body = body))

\* `if repeatCount >= 3`
IsSpam(repeatCount) == repeatCount >= SpamThreshold

\* the mutant of Recorded: a message that triggers the rule is left out
RecordedUnlessSpam(arr, rm, spam) == IF spam THEN arr ELSE Append(arr, rm)

\* `newArr = append(newArr, recentMsg{body: m.Body, ts: now})`, made
\* before repeatCount is looked at
Recorded(arr, rm, spam) == Append(arr, rm)

NoTask == [pc |-> "none", sender |-> "-", conv |-> "-", body |-> NoWord,
           err |-> FALSE, repeatCount |-> 0, matched |-> NoWord]

\* what a repository write returns: `_ = b.msgRepo.Delete(m.ID)` and the
\* like never look at it
WriteResults == IF faulty THEN BOOLEAN ELSE {TRUE}

Write(op, ok) == [op |-> op, ok |-> ok]

\* the mutant of AfterWrites: a failed write sends the task round again
AfterWritesRetry(pc, ok) == IF ok THEN "done" ELSE pc

\* processMessage returns after its writes, whatever they returned
AfterWrites(pc, ok) == "done"

InitBot ==
    /\ now = 0
    /\ recent = [u \in Users |-> <<>>]
    /\ tasks = [i \in TaskIds |-> NoTask]
    /\ received = 0
    /\ deleted = {}
    /\ mutes = {}
    /\ logs = [i \in TaskIds |-> <<>>]
    /\ writes = [i \in TaskIds |-> <<>>]

\* Bot.Run: a message.new event arrives and `go b.processMessage(&m)` starts
BotReceive(sender, conv, body) ==
    /\ received < quota
    /\ received' = received + 1
    /\ tasks' = [tasks EXCEPT ![received + 1] =
                    [pc |-> "banned", sender |-> sender, conv |-> conv,
                     body |-> body, err |-> FALSE, repeatCount |-> 0,
                     matched |-> NoWord]]
    /\ UNCHANGED <<now, recent, deleted, mutes, logs, writes, faulty, quota, hubVars, rateVars>>

\* processMessage, step 1: load the banned words and match them; on a match
\* ask for the deletion, write the log entry and return
BotBannedWords(i) ==
    /\ tasks[i].pc = "banned"
    /\ \E err \in BOOLEAN :
          LET bannedWords == IF err THEN {} ELSE BannedWords(tasks[i].conv)
              hits == Matches(tasks[i].body, bannedWords)
          IN IF ~err /\ bannedWords # {} /\ hits # {}
             THEN \E bw \in hits : \E d, l \in WriteResults :
                     /\ writes' = [writes EXCEPT ![i] =
                                      @ \o <<Write("delete", d), Write("log", l)>>]
                     /\ deleted' = deleted \cup {i}
                     /\ logs' = [logs EXCEPT ![i] =
                                    Append(@, [action |-> "delete_word",
                                               target |-> tasks[i].sender,
                                               reason |-> bw])]
                     /\ tasks' = [tasks EXCEPT ![i].pc = AfterWrites("banned", d /\ l),
                                               ![i].matched = bw]
             ELSE /\ tasks' = [tasks EXCEPT ![i].pc = "window", ![i].err = err]
                  /\ UNCHANGED <<deleted, logs, writes>>
    /\ UNCHANGED <<now, recent, received, mutes, faulty, quota, hubVars, rateVars>>

\* processMessage, step 2, under recentMu: prune the sender's window, count
\* the repeats, append the new entry; return unless the count says spam
\* (err is not read again and is dropped here)
BotWindow(i) ==
    /\ tasks[i].pc = "window"
    /\ LET s == tasks[i].sender
           repeatCount == RepeatCount(recent[s], now, tasks[i].body)
       IN /\ recent' = [recent EXCEPT ![s] =
                           Recorded(Pruned(recent[s], now),
                                    [body |-> tasks[i].body, ts |-> now],
                                    IsSpam(repeatCount))]
          /\ tasks' = [tasks EXCEPT ![i].repeatCount = repeatCount,
                                    ![i].err = FALSE,
                                    ![i].pc = IF IsSpam(repeatCount) THEN "enforce"
                                              ELSE "done"]
    /\ UNCHANGED <<now, received, deleted, mutes, logs, writes, faulty, quota, hubVars, rateVars>>

\* processMessage, step 3: mute the sender for five minutes, write the log
\* entry, ask for the deletion
BotEnforce(i) ==
    /\ tasks[i].pc = "enforce"
    /\ mutes' = {m \in mutes : ~(m.conv = tasks[i].conv /\ m.user = tasks[i].sender)}
                \cup {[conv |-> tasks[i].conv, user |-> tasks[i].sender,
                       exp |-> now + MuteLen]}
    /\ logs' = [logs EXCEPT ![i] =
                   Append(@, [action |-> "timeout_spam",
                              target |-> tasks[i].sender, reason |-> NoWord])]
    /\ deleted' = deleted \cup {i}
    /\ \E m, l, d \in WriteResults :
          /\ writes' = [writes EXCEPT ![i] =
                           @ \o <<Write("mute", m), Write("log", l), Write("delete", d)>>]
          /\ tasks' = [tasks EXCEPT ![i].pc = AfterWrites("enforce", m /\ l /\ d)]
    /\ UNCHANGED <<now, recent, received, faulty, quota, hubVars, rateVars>>

\* the wall clock advances
Tick ==
    /\ now < MaxNow
    /\ now' = now + TickLen
    /\ UNCHANGED <<recent, tasks, received, deleted, mutes, logs, writes, faulty, quota, hubVars, rateVars>>

NextBot ==
    \/ \E in \in Inputs : BotReceive(in[1], in[2], in[3])
    \/ \E i \in TaskIds : BotBannedWords(i)
    \/ \E i \in TaskIds : BotWindow(i)
    \/ \E i \in TaskIds : BotEnforce(i)
    \/ Tick

(***************************************************************************)
(* The channel-chat rate limiter: ChannelChatHandler.PostChat, its local   *)
(* token buckets and their sweep, and RedisClient.AllowAction.  Times are  *)
(* in milliseconds and token counts in thousandths of a token, so that the *)
(* floating-point products of the code are whole numbers here.             *)
(***************************************************************************)
\* the server processes that share the distributed tier
Procs == {"p1", "p2"}

\* h.localRate, tokens per second (RATE_LIMIT_MESSAGES_PER_SECOND), scaled
Rate == 1
\* h.localBurst, the capacity in tokens (10 in main), scaled
Burst == 2
\* channel-chat posts made
MaxPosts == 4
\* milliseconds the clock moves at a time
TickMs == 500
\* moves of the clock
MaxMoves == 2

\* registrations of one principal in the other process
MaxRemote == 1

\* thousandths in a token, milliseconds in a second: `/ 1000`, `.Seconds()`
Milli == 1000
\* `redis.call('PEXPIRE', key, 60000)`
ExpireMs == 60000
\* `10*time.Minute`, in milliseconds
StaleMs == 600000

Capacity == Burst * Milli

Min(a, b) == IF a < b THEN a ELSE b
Max(a, b) == IF a > b THEN a ELSE b

\* HMGET of a key that does not exist; a bucket the map does not hold
NoKey == [tokens |-> -1, last |-> -1]
NoBucket == [tokens |-> -1, lastRefill |-> -1]

\* a PostChat call that has not been made
NoPost == [pc |-> "none", proc |-> "-", redis |-> "-", local |-> "-"]

\* `redis.call('HMGET', key, 'tokens', 'last')`: an expired key is gone
HMGet == IF idle >= ExpireMs THEN NoKey ELSE rl

\* `math.min(burst, tokens + (delta * rate / 1000))`
LuaRefill(tokens, delta) == Min(Capacity, tokens + delta * Rate)

\* the mutant of CanSpend: a bucket with less than a token still pays
CanSpendAlways(tokens) == TRUE

\* `if new_tokens >= 1` / `if b.tokens >= 1`
CanSpend(tokens) == tokens >= Milli

\* the Lua script of AllowAction, run atomically by Redis at time t: the
\* answer and the hash it stores
LuaScript(t) ==
    LET vals == HMGet
        tokens == IF vals = NoKey THEN Capacity ELSE vals.tokens
        last == IF vals = NoKey THEN t ELSE vals.last
        delta == Max(0, t - last)
        new_tokens == LuaRefill(tokens, delta)
    IN IF CanSpend(new_tokens)
       THEN [ok |-> TRUE, hash |-> [tokens |-> new_tokens - Milli, last |-> t]]
       ELSE [ok |-> FALSE, hash |-> [tokens |-> new_tokens, last |-> t]]

\* the mutant of LocalCap: the refill is not capped
LocalCapNone(tokens) == tokens

\* `if b.tokens > b.capacity { b.tokens = b.capacity }`
LocalCap(tokens) == IF tokens > Capacity THEN Capacity ELSE tokens

\* the refill both tokenBucket.allow and runRefillLoop perform at time t
Refilled(b, t) ==
    LET elapsed == t - b.lastRefill
    IN IF elapsed > 0
       THEN [tokens |-> LocalCap(b.tokens + elapsed * Rate), lastRefill |-> t]
       ELSE b

\* tokenBucket.allow at time t: the answer and the bucket it leaves
Allow(b, t) ==
    LET r == Refilled(b, t)
    IN IF CanSpend(r.tokens)
       THEN [ok |-> TRUE, bucket |-> [r EXCEPT !.tokens = @ - Milli]]
       ELSE [ok |-> FALSE, bucket |-> r]

\* the mutant of NeedsLocal: the local bucket is never consulted
NeedsLocalNever(present, allowed) == FALSE

\* `if h.redis == nil || !allowed`
NeedsLocal(present, allowed) == ~present \/ ~allowed

InitRate ==
    /\ wall = 0
    /\ idle = 0
    /\ moves = 0
    /\ rl = NoKey
    /\ buckets = [p \in Procs |-> NoBucket]
    /\ posts = [i \in 1..MaxPosts |-> NoPost]
    /\ posted = 0
    /\ seen = [t \in {"redis"} \cup Procs |-> [at |-> 0, tokens |-> Capacity, steady |-> TRUE]]

\* PostChat up to the rate limit's first tier (lines 204-214): with a Redis
\* client, AllowAction answers or fails
PostChatLimit(p) ==
    /\ posted < MaxPosts
    /\ posted' = posted + 1
    /\ \E err \in IF hasRedis THEN BOOLEAN ELSE {FALSE} :
          LET answered == hasRedis /\ ~err
              res == LuaScript(wall)
              allowed == IF ~hasRedis THEN TRUE ELSE IF err THEN FALSE ELSE res.ok
          IN /\ IF answered
                THEN /\ rl' = res.hash
                     /\ idle' = 0
                     /\ seen' = [seen EXCEPT !["redis"].at = wall,
                                              !["redis"].tokens = res.hash.tokens]
                ELSE UNCHANGED <<rl, idle, seen>>
             /\ posts' = [posts EXCEPT ![posted + 1] =
                            [pc |-> IF NeedsLocal(hasRedis, allowed)
                                    THEN "bucket" ELSE "admitted",
                             proc |-> p,
                             redis |-> IF ~hasRedis THEN "none"
                                       ELSE IF err THEN "error"
                                       ELSE IF allowed THEN "allow" ELSE "deny",
                             local |-> "-"]]
    /\ UNCHANGED <<wall, moves, buckets, hasRedis, hubVars, botVars>>

\* PostChat, lines 218-229: under bucketsMu, find the user's bucket or make
\* a full one
PostChatBucket(i) ==
    /\ posts[i].pc = "bucket"
    /\ LET p == posts[i].proc
       IN buckets' = IF buckets[p] = NoBucket
                     THEN [buckets EXCEPT ![p] =
                              [tokens |-> Capacity, lastRefill |-> wall]]
                     ELSE buckets
    /\ posts' = [posts EXCEPT ![i].pc = "allow"]
    /\ UNCHANGED <<wall, idle, moves, rl, posted, seen, hasRedis, hubVars, botVars>>

\* PostChat, lines 231-234: `if !b.allow()` rejects with rate_limited
PostChatAllow(i) ==
    /\ posts[i].pc = "allow"
    /\ LET p == posts[i].proc
           res == Allow(buckets[p], wall)
       IN /\ buckets' = [buckets EXCEPT ![p] = res.bucket]
          /\ seen' = [seen EXCEPT ![p].at = wall, ![p].tokens = res.bucket.tokens]
          /\ posts' = [posts EXCEPT ![i].pc = IF res.ok THEN "admitted" ELSE "limited",
                                    ![i].local = IF res.ok THEN "allow" ELSE "deny"]
    /\ UNCHANGED <<wall, idle, moves, rl, posted, hasRedis, hubVars, botVars>>

\* one round of runRefillLoop in process p: refill the bucket, and drop it
\* when it is full and was last refilled more than ten minutes ago
Sweep(p) ==
    /\ buckets[p] # NoBucket
    /\ LET b == Refilled(buckets[p], wall)
       IN buckets' = [buckets EXCEPT ![p] =
                         IF wall - b.lastRefill > StaleMs /\ b.tokens = Capacity
                         THEN NoBucket ELSE b]
    /\ UNCHANGED <<wall, idle, moves, rl, posts, posted, seen, hasRedis, hubVars,
                   botVars>>

\* time passes: d milliseconds on the wall clock and for the key's expiry
ClockForward(d) ==
    /\ moves < MaxMoves
    /\ moves' = moves + 1
    /\ wall' = wall + d
    /\ idle' = Min(idle + d, ExpireMs)
    /\ UNCHANGED <<rl, buckets, posts, posted, seen, hasRedis, hubVars, botVars>>

\* the wall clock is set back
ClockBackward ==
    /\ moves < MaxMoves
    /\ wall >= TickMs
    /\ moves' = moves + 1
    /\ wall' = wall - TickMs
    /\ seen' = [t \in DOMAIN seen |-> [seen[t] EXCEPT !.steady = FALSE]]
    /\ UNCHANGED <<idle, rl, buckets, posts, posted, hasRedis, hubVars, botVars>>

NextRate ==
    \/ \E p \in Procs : PostChatLimit(p)
    \/ \E i \in 1..MaxPosts : PostChatBucket(i)
    \/ \E i \in 1..MaxPosts : PostChatAllow(i)
    \/ \E p \in Procs : Sweep(p)
    \/ \E d \in {TickMs, ExpireMs} : ClockForward(d)
    \/ ClockBackward

\* the way of message events from their publishers through the bridge and
\* the hub to the queues of connections that never fail
NextBridge ==
    \/ \E c \in Conns : HandleWebSocket(c)
    \/ \E c \in Conns : HubRecvRegister(c)
    \/ HubRegister
    \/ HubRecvBroadcast
    \/ HubBroadcast
    \/ \E c \in Conns, conv \in Convs : ReadMessageRead(c, conv)
    \/ \E c \in Conns, conv \in Convs : ReadMessageSend(c, conv)
    \/ \E c \in Conns : CreateMessage(c)
    \/ \E c \in Conns : PublishMessage(c)
    \/ \E conv \in Convs : RemotePublishMessage(conv)
    \/ \E c \in Conns : WriteMessage(c)
    \/ BridgeRecvMessage
    \/ BridgeRecvPresence
    \/ BridgeUnblock
    \/ SendToConversationLookup
    \/ SendToConversationSend

\* the register case of Hub.Run in another process that shares the store:
\* SetUserOnline, then PublishPresence, which this process's bridge receives
RemoteRegister(u) ==
    /\ Alive
    /\ ~remote[u].on
    /\ remote[u].n < MaxRemote
    /\ remote' = [remote EXCEPT ![u] = [on |-> TRUE, n |-> @.n + 1]]
    /\ presence' = SetUserOnline(u)
    /\ \E ok \in BOOLEAN :
          presenceChan' = IF ok THEN Deliver(presenceChan, PresenceUpdate)
                          ELSE presenceChan
    /\ UNCHANGED <<botVars, rateVars, trailVars, handlerVars, pumpVars, clients, broadcast, hub, send, closed, sock, rp, wp,
                   bridge, msgChan, stu, crash, stored, nextID, frames, directs, lastReg, fallback>>

\* the unregister case of Hub.Run in that process: SetUserOffline, then
\* PublishPresence
RemoteUnregister(u) ==
    /\ Alive
    /\ remote[u].on
    /\ remote' = [remote EXCEPT ![u].on = FALSE]
    /\ presence' = SetUserOffline(u)
    /\ \E ok \in BOOLEAN :
          presenceChan' = IF ok THEN Deliver(presenceChan, PresenceUpdate)
                          ELSE presenceChan
    /\ UNCHANGED <<botVars, rateVars, trailVars, handlerVars, pumpVars, clients, broadcast, hub, send, closed, sock, rp, wp,
                   bridge, msgChan, stu, crash, stored, nextID, frames, directs, lastReg, fallback>>

\* the expiry of a presence record: nothing writes the key between a
\* principal's registration and its unregistration, so the 5 minutes of an
\* "online" record (24 hours of an "offline" one) can pass in any state
PresenceExpire(u) ==
    /\ presence[u] # "none"
    /\ presence' = [presence EXCEPT ![u] = "none"]
    /\ UNCHANGED <<botVars, rateVars, trailVars, remote, handlerVars, pumpVars, clients, broadcast, hub, send, closed, sock, rp, wp,
                   bridge, msgChan, presenceChan, stu, crash, stored, nextID, frames, directs, lastReg, fallback>>

\* IsUserMutedOrBanned: a "mute" row of the pair counts unless its
\* expires_at is before now
IsUserMuted(conv, u) ==
    \E m \in mutes : m.conv = conv /\ m.user = u /\ ~(m.exp < now)

\* MessageHandler.SendMessage, the REST message send: the membership check,
\* msgRepo.Create, redis.PublishMessage with its error ignored
SendMessage(u, conv) ==
    /\ Alive
    /\ frames < budget
    /\ frames' = frames + 1
    /\ \E err, cerr, ok \in BOOLEAN :
          LET isMember == ~err /\ u \in Members(conv)
          IN IF MemberGate(err, isMember)
             THEN /\ nextID' = nextID + 1
                  /\ IF CreateGate(cerr)
                     THEN /\ stored' = stored \cup {nextID}
                          /\ msgChan' = IF ok THEN Deliver(msgChan, MessageNew(nextID, conv, "local"))
                                        ELSE msgChan
                          /\ published' = Publish(nextID, ok)
                     ELSE UNCHANGED <<stored, msgChan, published>>
             ELSE UNCHANGED <<nextID, stored, msgChan, published>>
    /\ UNCHANGED <<botVars, rateVars, storeVars, audit, given, late, tooLate, handlerVars, pumpVars, clients, broadcast, hub, send, closed, sock, rp, wp, bridge,
                   presenceChan, stu, crash, directs, lastReg, fallback>>

\* the messages the bot receives in the runs about a mute: A repeats itself
\* in X
MuteInputs == { <<"A", "X", Hi>> }

\* the bot's mute and the two ingestion paths that persist and publish a
\* message.new: the WebSocket message.send frame and the REST message send
NextMuted ==
    \/ \E in \in MuteInputs : BotReceive(in[1], in[2], in[3])
    \/ \E i \in TaskIds : BotBannedWords(i)
    \/ \E i \in TaskIds : BotWindow(i)
    \/ \E i \in TaskIds : BotEnforce(i)
    \/ Tick
    \/ \E c \in Conns : HandleWebSocket(c)
    \/ \E c \in Conns : HubRecvRegister(c)
    \/ HubRegister
    \/ \E c \in Conns, conv \in Convs : ReadMessageSend(c, conv)
    \/ \E c \in Conns : CreateMessage(c)
    \/ \E c \in Conns : PublishMessage(c)
    \/ \E u \in Users, conv \in Convs : SendMessage(u, conv)

\* the messages the bot receives in the runs about repeated spam: A
\* repeats itself in X and in Y
SpamInputs == { <<"A", "X", Hi>>, <<"A", "Y", Hi>> }

\* the bot fed MaxRepeats identical messages of one sender
NextSpam ==
    \/ \E in \in SpamInputs : BotReceive(in[1], in[2], in[3])
    \/ \E i \in TaskIds : BotBannedWords(i)
    \/ \E i \in TaskIds : BotWindow(i)
    \/ \E i \in TaskIds : BotEnforce(i)
    \/ Tick

\* registration and unregistration in two processes that share the presence
\* store, and the expiry of its records
NextPresence ==
    \/ \E c \in Conns : HandleWebSocket(c)
    \/ \E c \in Conns : HubRecvRegister(c)
    \/ HubRegister
    \/ \E c \in Conns : HubRecvUnregister(c)
    \/ HubUnregister
    \/ HubRecvBroadcast
    \/ HubBroadcast
    \/ \E c \in Conns : ReadError(c)
    \/ \E c \in Conns : WriteMessage(c)
    \/ \E c \in Conns : WriteClose(c)
    \/ BridgeRecvPresence
    \/ BridgeUnblock
    \/ \E u \in Users : RemoteRegister(u)
    \/ \E u \in Users : RemoteUnregister(u)
    \/ \E u \in Users : PresenceExpire(u)

\* the life and end of the connections: registration, presence broadcasts,
\* an undecodable frame, overflow, transport failures, unregistration
NextShutdown ==
    \/ \E c \in Conns : HandleWebSocket(c)
    \/ \E c \in Conns : HubRecvRegister(c)
    \/ HubRegister
    \/ \E c \in Conns : HubRecvUnregister(c)
    \/ HubUnregister
    \/ HubRecvBroadcast
    \/ HubBroadcast
    \/ \E c \in Conns : ReadBadFrame(c)
    \/ \E c \in Conns : ReadError(c)
    \/ \E c \in Conns : TransportFailure(c)
    \/ \E c \in Conns : WriteMessage(c)
    \/ \E c \in Conns : WriteClose(c)
    \/ \E c \in Conns : WritePingFailure(c)
    \/ BridgeRecvPresence
    \/ BridgeUnblock

\* the goroutines of the hub, the bridge and the pumps are scheduled fairly
FairShutdown ==
    /\ \A c \in Conns : WF_vars(HubRecvRegister(c))
    /\ \A c \in Conns : WF_vars(HubRecvUnregister(c))
    /\ WF_vars(HubRegister)
    /\ WF_vars(HubUnregister)
    /\ WF_vars(HubRecvBroadcast)
    /\ WF_vars(HubBroadcast)
    /\ \A c \in Conns : WF_vars(ReadError(c))
    /\ \A c \in Conns : WF_vars(WriteMessage(c))
    /\ \A c \in Conns : WF_vars(WriteClose(c))
    /\ \A c \in Conns : WF_vars(WritePingFailure(c))
    /\ WF_vars(BridgeRecvPresence)
    /\ WF_vars(BridgeUnblock)

\* the rate limiter with a clock that can pass the sweep's ten minutes
NextSweep ==
    \/ \E p \in Procs : PostChatLimit(p)
    \/ \E i \in 1..MaxPosts : PostChatBucket(i)
    \/ \E i \in 1..MaxPosts : PostChatAllow(i)
    \/ \E p \in Procs : Sweep(p)
    \/ \E d \in {TickMs, StaleMs + TickMs} : ClockForward(d)

\* runRefillLoop's ticker fires every second, and a request that has begun
\* runs to its end
FairSweep ==
    /\ \A p \in Procs : WF_vars(Sweep(p))
    /\ \A i \in 1..MaxPosts : WF_vars(PostChatBucket(i)) /\ WF_vars(PostChatAllow(i))

\* the events fed to the bot whose writes can fail: A shouting in Y, where
\* nothing is banned, and in X, where the shout holds a banned word
FaultInputs == { <<"A", "Y", Shout>>, <<"A", "X", Shout>> }

\* the bot's pipeline within one window, with writes that can fail
NextFaults ==
    \/ \E in \in FaultInputs : BotReceive(in[1], in[2], in[3])
    \/ \E i \in TaskIds : BotBannedWords(i)
    \/ \E i \in TaskIds : BotWindow(i)
    \/ \E i \in TaskIds : BotEnforce(i)

\* each processMessage goroutine that can take a step eventually takes it
FairBot ==
    \A i \in 1..MaxMsgs :
        /\ WF_vars(BotBannedWords(i))
        /\ WF_vars(BotWindow(i))
        /\ WF_vars(BotEnforce(i))

(***************************************************************************)
(* Scheduling: every goroutine that can take a step eventually takes it.   *)
(* What the peers and the callers of the hub do is not forced.             *)
(***************************************************************************)
Fairness ==
    /\ \A c \in Conns : WF_vars(HubRecvRegister(c))
    /\ \A c \in Conns : WF_vars(HubRecvUnregister(c))
    /\ WF_vars(HubRegister)
    /\ WF_vars(HubUnregister)
    /\ WF_vars(HubRecvBroadcast)
    /\ WF_vars(HubBroadcast)
    /\ \A c \in Conns : WF_vars(CreateMessage(c))
    /\ \A c \in Conns : WF_vars(PublishMessage(c))
    /\ \A c \in Conns : WF_vars(ReadError(c))
    /\ \A c \in Conns : WF_vars(WriteMessage(c))
    /\ \A c \in Conns : WF_vars(WriteClose(c))
    /\ \A c \in Conns : WF_vars(WritePingFailure(c))
    /\ WF_vars(BridgeRecvMessage)
    /\ WF_vars(BridgeRecvPresence)
    /\ WF_vars(BridgeUnblock)
    /\ WF_vars(SendToConversationLookup)
    /\ WF_vars(SendToConversationSend)
    /\ WF_vars(SendToUserSend)

\* the hub and the bot exist only in a process that has a Redis client
Init ==
    InitHub /\ InitBot /\ InitRate /\ hasRedis = TRUE /\ budget = MaxFrames /\ audit = FALSE
        /\ faulty = FALSE /\ quota = MaxMsgs

\* the channel-chat handler is built with or without a Redis client
InitAnyRedis ==
    InitHub /\ InitBot /\ InitRate /\ hasRedis \in BOOLEAN /\ budget = MaxFrames
        /\ audit = FALSE /\ faulty = FALSE /\ quota = MaxMsgs

\* the hub of a run that reads PumpFrames frames
InitPump ==
    InitHub /\ InitBot /\ InitRate /\ hasRedis = TRUE /\ budget = PumpFrames /\ audit = FALSE
        /\ faulty = FALSE /\ quota = MaxMsgs

\* the hub of a run that handles BridgeFrames frames and keeps the delivery
\* history
InitBridge ==
    InitHub /\ InitBot /\ InitRate /\ hasRedis = TRUE /\ budget = BridgeFrames /\ audit = TRUE
        /\ faulty = FALSE /\ quota = MaxMsgs

\* the bot of a run that receives MaxRepeats messages
InitSpam ==
    InitHub /\ InitBot /\ InitRate /\ hasRedis = TRUE /\ budget = MaxFrames /\ audit = FALSE
        /\ faulty = FALSE /\ quota = MaxRepeats

\* the hub of a run that follows the presence store
InitPresence ==
    InitHub /\ InitBot /\ InitRate /\ hasRedis = TRUE /\ budget = MaxFrames /\ audit = TRUE
        /\ faulty = FALSE /\ quota = MaxMsgs

\* the bot of a run in which the repositories' writes can fail
InitFaults ==
    InitHub /\ InitBot /\ InitRate /\ hasRedis = TRUE /\ budget = MaxFrames /\ audit = FALSE
        /\ faulty = TRUE /\ quota = MaxMsgs

Spec == Init /\ [][NextHub]_vars

FairSpec == Spec /\ Fairness

SpecBot == Init /\ [][NextBot]_vars

SpecRate == InitAnyRedis /\ [][NextRate]_vars

SpecPump == InitPump /\ [][NextPump]_vars

SpecFrames == InitPump /\ [][NextFrames]_vars

SpecBridge == InitBridge /\ [][NextBridge]_vars

SpecBotFaults == InitFaults /\ [][NextFaults]_vars /\ FairBot

SpecSweep == InitAnyRedis /\ [][NextSweep]_vars /\ FairSweep

SpecShutdown == Init /\ [][NextShutdown]_vars /\ FairShutdown

SpecPresence == InitPresence /\ [][NextPresence]_vars

SpecMuted == Init /\ [][NextMuted]_vars

SpecSpam == InitSpam /\ [][NextSpam]_vars

(***************************************************************************)
(* Vocabulary of the properties.                                           *)
(***************************************************************************)
\* c is the registry's entry for its user
Registered(c) == clients[UserOf(c)] = c

\* c's outbound queue is open and below capacity
HasRoom(c) == ~closed[c] /\ Len(send[c]) < SendCap

\* a message.new event of message id sits on c's outbound queue
InQueue(c, id) ==
    \E i \in 1..Len(send[c]) :
        send[c][i].event = EventMessageNew /\ send[c][i].id = id

\* the step is the body of the hub's unregister case
UnregisterStep ==
    /\ hub.pc = "unregister"
    /\ hub'.pc = "select" \/ crash' # crash

\* the step is the broadcast loop's iteration for user u
BroadcastStep(u) ==
    /\ hub.pc = "broadcast"
    /\ u \in hub.todo
    /\ crash' = crash
    /\ IF hub.todo = {u} THEN hub'.pc = "select"
       ELSE hub'.pc = "broadcast" /\ hub'.todo = hub.todo \ {u}

\* the step is SendToConversation's send to the connection it looked up
ConversationSendStep == bridge.pc = "stcSend" /\ bridge' # bridge

\* the step is SendToUser's send to the connection it looked up
UserSendStep == stu.pc = "send" /\ stu' # stu

(***************************************************************************)
(* C1                                                                      *)
(***************************************************************************)
\* C1: the registry maps a user to at most one connection, and an entry that
\* is present is the connection most recently registered for that user.
C1_RegistryHoldsLatest ==
    \A u \in Users :
        clients[u] # NoClient =>
            /\ clients[u] \in Conns
            /\ UserOf(clients[u]) = u
            /\ clients[u] = lastReg[u]

\* a2 was registered after a1, which is still connected, and a2 is the entry
C1_Witness ==
    /\ hub.pc = "select"
    /\ clients["A"] = "a2"
    /\ rp["a1"].pc = "read"
    /\ ~closed["a1"]

(***************************************************************************)
(* C2                                                                      *)
(***************************************************************************)
\* C2: when the hub processes Unregister(c1) while the registry entry of
\* c1's user is another connection c2, c2 stays the entry and c2's queue
\* stays open.
C2_StaleUnregisterSparesSuccessor ==
    [][\A c2 \in Conns :
          (UnregisterStep /\ c2 # hub.client /\ clients[UserOf(hub.client)] = c2)
              => clients'[UserOf(c2)] = c2 /\ closed'[c2] = closed[c2]]_vars

(***************************************************************************)
(* C3                                                                      *)
(***************************************************************************)
\* C3: whenever a message.new event of this process's send handler appears
\* on the bus, the handler publishing it had, before that step, found the
\* sender to be a member of the conversation and stored the message; a
\* frame whose check or whose store fails publishes nothing.
C3_PublishAfterCheckAndPersist ==
    [][(Len(msgChan') > Len(msgChan) /\ msgChan'[Len(msgChan')].origin = "local")
          => \E c \in Conns :
                LET ev == msgChan'[Len(msgChan')]
                IN /\ rp[c].pc = "publish"
                   /\ rp[c].id = ev.id
                   /\ rp[c].conv = ev.conv
                   /\ rp[c].isMember
                   /\ UserOf(c) \in Members(ev.conv)
                   /\ ev.id \in stored]_vars

\* an event published by the local send handler is on the bus
C3_Witness ==
    \E i \in 1..Len(msgChan) :
        msgChan[i].event = EventMessageNew /\ msgChan[i].origin = "local"

(***************************************************************************)
(* C4                                                                      *)
(***************************************************************************)
\* C4, as stated: no connection ever holds on its outbound queue a
\* message.new event of a conversation its user is not a member of.
C4_NonMemberNeverReceives ==
    \A c \in Conns : \A i \in 1..Len(send[c]) :
        send[c][i].event = EventMessageNew
            => UserOf(c) \in Members(send[c][i].conv)

\* C4, amended: a connection holds a message.new event of a conversation its
\* user is not a member of only when the bridge failed to resolve that
\* event's members and fell back to the undirected broadcast.
C4_NonMemberReceivesOnlyByFallback ==
    \A c \in Conns : \A i \in 1..Len(send[c]) :
        send[c][i].event = EventMessageNew
            => \/ UserOf(c) \in Members(send[c][i].conv)
               \/ send[c][i].id \in fallback

\* the bridge serves an event of Y by the scoped path while A, who is not a
\* member of Y, is registered
C4_Witness ==
    /\ bridge.pc = "stcLookup"
    /\ bridge.message.conv = "Y"
    /\ "A" \notin bridge.ids
    /\ clients["A"] # NoClient
    /\ HasRoom(clients["A"])

(***************************************************************************)
(* C5                                                                      *)
(***************************************************************************)
\* C5: once a message.new event of conversation X is on the bus, a member's
\* connection that is and stays registered with room in its outbound queue
\* eventually has the event, carrying the stored message's id, on that queue.
C5_PublishedReachesMembers ==
    \A c \in Conns : \A id \in 1..MaxFrames :
        ((\E i \in 1..Len(msgChan) :
              msgChan[i].conv = "X" /\ msgChan[i].id = id /\ id \in stored)
         /\ UserOf(c) \in Members("X") /\ Registered(c) /\ HasRoom(c))
            ~> (InQueue(c, id) \/ ~(Registered(c) /\ HasRoom(c)))

C7_NoSendOnClosedQueue == crash # "send on closed channel"

(***************************************************************************)
(* Vocabulary of the bot's properties.                                     *)
(***************************************************************************)
\* two characters are the same letter, whatever their case
SameLetter(a, b) ==
    \/ a = b
    \/ {a, b} \in {{"a", "A"}, {"b", "B"}, {"d", "D"}}

\* word occurs in body as a substring, ignoring case
FoldContains(body, word) ==
    \E k \in 0..(Len(body) - Len(word)) :
        \A j \in 1..Len(word) : SameLetter(body[k + j], word[j])

\* the body of message i contains a banned word of its conversation
HasBannedWord(i) ==
    \E w \in BannedWords(tasks[i].conv) : FoldContains(tasks[i].body, w)

\* the actions of the log entries written for message i
LogsOf(i) == {logs[i][k].action : k \in 1..Len(logs[i])}

\* the step takes message i through the banned-word filter
BannedWordsStep(i) == tasks[i].pc = "banned" /\ tasks'[i].pc # "banned"

\* the step takes message i through the spam window
WindowStep(i) == tasks[i].pc = "window" /\ tasks'[i].pc # "window"

\* what the banned-word filter does on a match, and nothing besides
DeletedForWord(i) ==
    /\ tasks'[i].pc = "done"
    /\ deleted' = deleted \cup {i}
    /\ \A j \in 1..MaxMsgs : j # i => logs'[j] = logs[j]
    /\ logs[i] = <<>>
    /\ Len(logs'[i]) = 1
    /\ LET entry == logs'[i][1]
       IN /\ entry.action = "delete_word"
          /\ entry.target = tasks[i].sender
          /\ entry.reason \in BannedWords(tasks[i].conv)
          /\ FoldContains(tasks[i].body, entry.reason)
    /\ mutes' = mutes
    /\ recent' = recent

(***************************************************************************)
(* C8                                                                      *)
(***************************************************************************)
\* C8: of a sender's messages with one body processed within ten seconds,
\* none stopped by the banned-word filter, the first and the second draw no
\* action, and the third draws a five-minute mute of the sender in its
\* conversation, a timeout_spam log entry and its own deletion.
C8_ThirdRepeatIsMuted ==
    \A i \in 1..MaxMsgs :
        (tasks[i].pc = "done" /\ tasks[i].matched = NoWord) =>
            /\ tasks[i].repeatCount + 1 < 3 =>
                  i \notin deleted /\ LogsOf(i) = {}
            /\ tasks[i].repeatCount + 1 = 3 =>
                  /\ i \in deleted
                  /\ "timeout_spam" \in LogsOf(i)
                  /\ \E m \in mutes :
                        /\ m.conv = tasks[i].conv
                        /\ m.user = tasks[i].sender
                        /\ m.exp - 300 \in 0..now

(***************************************************************************)
(* C9                                                                      *)
(***************************************************************************)
\* C9: each message that reaches the spam check prunes its sender's window:
\* only entries at most ten seconds old are counted and kept, and a message
\* whose identical predecessors in the window are all older than ten
\* seconds is finished with no mute, no deletion and no log entry.
C9_WindowCountsOnlyFreshEntries ==
    [][\A i \in 1..MaxMsgs :
          WindowStep(i) =>
              LET arr == recent[tasks[i].sender]
                  arr2 == recent'[tasks[i].sender]
                  fresh == {k \in 1..Len(arr) :
                               now - arr[k].ts <= 10 /\ arr[k].body = tasks[i].body}
                  same == {k \in 1..Len(arr) : arr[k].body = tasks[i].body}
              IN /\ tasks'[i].repeatCount = Cardinality(fresh)
                 /\ \A k \in 1..Len(arr2) : now - arr2[k].ts <= 10
                 /\ arr2[Len(arr2)] = [body |-> tasks[i].body, ts |-> now]
                 /\ fresh = {} =>
                       /\ tasks'[i].pc = "done"
                       /\ mutes' = mutes /\ deleted' = deleted /\ logs' = logs]_vars

\* four identical messages of A are finished, none deleted, and the window
\* holds the last one alone: its three predecessors were too old to count
C9_Witness ==
    /\ \A i \in 1..MaxMsgs :
          /\ tasks[i].pc = "done"
          /\ tasks[i].sender = "A"
          /\ tasks[i].body = Hi
    /\ deleted = {}
    /\ mutes = {}
    /\ \A i \in 1..MaxMsgs : logs[i] = <<>>
    /\ Len(recent["A"]) = 1

Admitted == {i \in 1..MaxPosts : posts[i].pc = "admitted"}

\* the step is an AllowAction call that Redis answered
RedisCheckStep ==
    /\ posted' = posted + 1
    /\ posts'[posted'].redis \in {"allow", "deny"}

\* the step is the call of b.allow() by post i
LocalCheckStep(i) == posts[i].pc = "allow" /\ posts'[i].pc # "allow"

\* the clock has never been set back
Steady == \A t \in DOMAIN seen : seen[t].steady

\* the refill law: the tokens a check made now finds on tier t, given what
\* the previous check of that tier left and the time since
LawTokens(t) == Min(Capacity, seen[t].tokens + (wall - seen[t].at) * Rate)

(***************************************************************************)
(* C11                                                                     *)
(***************************************************************************)
\* C11: a post whose distributed check was answered with a denial is
\* rejected as rate-limited and never reaches the local bucket; the local
\* bucket is consulted only by posts whose distributed check failed or was
\* never made for want of a client.
C11_DistributedAnswerIsFinal ==
    \A i \in 1..MaxPosts :
        /\ posts[i].redis = "deny" => posts[i].pc = "limited" /\ posts[i].local = "-"
        /\ posts[i].pc \in {"bucket", "allow"} => posts[i].redis \in {"none", "error"}
        /\ posts[i].local # "-" => posts[i].redis \in {"none", "error"}

(***************************************************************************)
(* C12                                                                     *)
(***************************************************************************)
\* C12: while the clock stands still and no distributed check has failed,
\* the posts admitted from a full bucket number at most the capacity: over
\* all processes when they share the distributed tier, and in each process
\* when there is none.
C12_BurstAdmitsAtMostCapacity ==
    (moves = 0 /\ \A i \in 1..MaxPosts : posts[i].redis # "error")
        => IF hasRedis
           THEN Cardinality(Admitted) <= Burst
           ELSE \A p \in Procs :
                   Cardinality({i \in Admitted : posts[i].proc = p}) <= Burst

(***************************************************************************)
(* C13                                                                     *)
(***************************************************************************)
\* C13: the token count stored in the Redis hash and in every local bucket
\* is at least zero and at most the capacity, in every reachable state,
\* whatever the clock did between the checks and the sweeps.
C13_TokensWithinBounds ==
    /\ rl # NoKey => rl.tokens >= 0 /\ rl.tokens <= Capacity
    /\ \A p \in Procs :
          buckets[p] # NoBucket
              => buckets[p].tokens >= 0 /\ buckets[p].tokens <= Capacity

\* both tiers hold a bucket that was refilled after the clock had moved,
\* in a run where the clock was also set back
C13_Witness ==
    /\ rl # NoKey /\ rl.tokens > 0 /\ rl.last > 0
    /\ ~Steady
    /\ \E p \in Procs :
          /\ buckets[p] # NoBucket
          /\ buckets[p].lastRefill > 0
          /\ buckets[p].tokens = Capacity

(***************************************************************************)
(* C14                                                                     *)
(***************************************************************************)
\* C14: on both tiers, while the clock only moves forward, a check made a
\* time t after the previous check of the same bucket (or after the start,
\* when the bucket was full) finds min(C, tokens + t*R) tokens; it is
\* allowed exactly when that is at least one token, which it then takes, and
\* is denied otherwise, leaving the refilled value stored.  So C checks at
\* one instant from a full bucket are allowed and the next one is denied.
C14_RefillLaw ==
    [][/\ (RedisCheckStep /\ Steady)
            => LET found == LawTokens("redis")
               IN /\ (posts'[posted'].redis = "allow") <=> (found >= Milli)
                  /\ rl'.tokens = IF found >= Milli THEN found - Milli ELSE found
       /\ \A i \in 1..MaxPosts :
             (LocalCheckStep(i) /\ Steady)
                => LET found == LawTokens(posts[i].proc)
                   IN /\ (posts'[i].local = "allow") <=> (found >= Milli)
                      /\ buckets'[posts[i].proc].tokens =
                            IF found >= Milli THEN found - Milli ELSE found]_vars

\* one tier allowed C checks at one instant and denied the next, and later
\* allowed a check again after the clock had moved
C14_Witness ==
    /\ Steady
    /\ \/ /\ posts[1].redis = "allow" /\ posts[2].redis = "allow"
          /\ posts[3].redis = "deny"
          /\ posts[4].redis = "allow"
       \/ /\ ~hasRedis
          /\ \A i \in 1..4 : posts[i].proc = "p1"
          /\ posts[1].local = "allow" /\ posts[2].local = "allow"
          /\ posts[3].local = "deny"
          /\ posts[4].local = "allow"

(***************************************************************************)
(* C15                                                                     *)
(***************************************************************************)
\* C15: a post whose distributed check failed, or that had no distributed
\* client to ask, is admitted only by its process's local bucket: the step
\* that admits it is a call of b.allow() that found at least one token and
\* took it.
C15_UnreachableFallsBackToLocal ==
    [][\A i \in 1..MaxPosts :
          (posts'[i].pc = "admitted" /\ posts[i].pc # "admitted"
              /\ posts'[i].redis \in {"none", "error"})
              => LET p == posts[i].proc
                 IN /\ LocalCheckStep(i)
                    /\ buckets[p] # NoBucket
                    /\ Refilled(buckets[p], wall).tokens >= Milli
                    /\ buckets'[p].tokens = Refilled(buckets[p], wall).tokens - Milli]_vars

\* after a failed distributed check one post was admitted by the local
\* bucket and another was rejected by it
C15_Witness ==
    \E i, j \in 1..MaxPosts :
        /\ posts[i].redis = "error" /\ posts[i].pc = "admitted"
        /\ posts[j].redis = "error" /\ posts[j].pc = "limited"

(***************************************************************************)
(* C16                                                                     *)
(***************************************************************************)
\* C16: every message the WebSocket send handler has stored for the user
\* has taken a token from the user's channel_chat bucket, so that the
\* tokens spent there are at least the messages stored.
C16_WebSocketSendIsCharged ==
    Cardinality(stored) * Milli
        <= IF rl = NoKey THEN 0 ELSE Capacity - rl.tokens

(***************************************************************************)
(* C17                                                                     *)
(***************************************************************************)
\* C17: a SendToUser call returns, and changes no registry entry; when it
\* found the user registered, its send appends the event once to the queue
\* of the connection it found if that queue has room, and changes no other
\* queue; a call that finds the user unregistered changes no queue.
C17_SendToUserFrame ==
    [][/\ (stu.pc = "send" /\ stu' # stu)
            => LET c == stu.client
               IN /\ crash' = crash
                  /\ stu' = StuIdle
                  /\ clients' = clients
                  /\ send' = IF HasRoom(c)
                             THEN [send EXCEPT ![c] = Append(@, DirectEvent)]
                             ELSE send
       /\ (stu.pc = "idle" /\ directs' # directs)
            => /\ crash' = crash
               /\ clients' = clients
               /\ send' = send
               /\ stu'.client \in {NoClient} \cup {d \in Conns : Registered(d)}]_vars

(***************************************************************************)
(* C18                                                                     *)
(***************************************************************************)
\* C18: every step of SendToConversation leaves the registry as it was and
\* goes on to the next recipient; a send concerns the connection found for
\* a user listed in ids, appends the event once to that connection's queue
\* if the queue has room and changes no other queue; a recipient that is
\* not registered, or whose queue is full, is passed over with no queue
\* changed.
C18_SendToConversationFrame ==
    [][/\ (bridge.pc = "stcSend" /\ bridge' # bridge)
            => LET c == bridge.client
               IN /\ crash' = crash
                  /\ bridge' = AfterMember(bridge.ids)
                  /\ clients' = clients
                  /\ UserOf(c) \in Recipients(bridge.message)
                  /\ send' = IF HasRoom(c)
                             THEN [send EXCEPT ![c] = Append(@, bridge.message)]
                             ELSE send
       /\ (bridge.pc = "stcLookup" /\ bridge' # bridge)
            => /\ crash' = crash
               /\ clients' = clients
               /\ send' = send]_vars

(***************************************************************************)
(* Vocabulary of the read loop's claims                                    *)
(***************************************************************************)
\* the step reads a frame of connection c
FrameStep(c) == frames' = frames + 1 /\ reader' = c

\* c's bucket holds no token and no refill period has passed
BucketEmpty(c) == clientTokens[c] = 0 /\ sinceRefill[c] = 0

\* the step offers an error to c's queue and to no other: the queue takes it
\* when it is open with room, and no queue changes otherwise
ErrorOffered(c) ==
    send' = IF HasRoom(c) THEN [send EXCEPT ![c] = Append(@, ErrorEvent)] ELSE send

\* the step starts no handler, stores nothing and publishes nothing
NothingHandled ==
    /\ rp' = rp
    /\ stored' = stored
    /\ nextID' = nextID
    /\ msgChan' = msgChan
    /\ presenceChan' = presenceChan

\* the step leaves every connection as open and as registered as it was,
\* in a process that goes on running
StaysOpen ==
    /\ sock' = sock
    /\ closed' = closed
    /\ clients' = clients
    /\ crash' = crash

(***************************************************************************)
(* C19                                                                     *)
(***************************************************************************)
\* C19: a frame read while the connection's bucket has no token starts no
\* handler, stores and publishes nothing, offers an error to the sender's
\* queue and leaves the connection open and registered; and the token count
\* of every connection is at least zero and at most the capacity, always.
C19_RateLimitedFrameIsDropped ==
    /\ [](\A c \in Conns : clientTokens[c] >= 0 /\ clientTokens[c] <= TokenCap)
    /\ [][\A c \in Conns :
             (FrameStep(c) /\ BucketEmpty(c))
                 => /\ NothingHandled
                    /\ ErrorOffered(c)
                    /\ StaysOpen
                    /\ clientTokens'[c] = 0]_vars

(***************************************************************************)
(* C20                                                                     *)
(***************************************************************************)
\* C20: an undecodable or unknown frame that the read loop lets through
\* offers an error to the sender's own queue and to no other, stores and
\* publishes nothing, and leaves the connection open and registered.
C20_BadFrameIsAnsweredWithError ==
    [][\A c \in Conns :
          (FrameStep(c) /\ ~BucketEmpty(c))
              => /\ NothingHandled
                 /\ ErrorOffered(c)
                 /\ StaysOpen]_vars

(***************************************************************************)
(* Vocabulary of the mark-read and typing claims                           *)
(***************************************************************************)
\* the step reads a frame of the given kind from connection c
HandlerStep(c, kind) == FrameStep(c) /\ lastFrame'.kind = kind

\* the step publishes on the messages topic
PublishesMessage == msgChan' # msgChan /\ Len(msgChan') = Len(msgChan) + 1

(***************************************************************************)
(* C21                                                                     *)
(***************************************************************************)
\* C21: the mark-read handler publishes a read receipt only in a step in
\* which MarkAsRead succeeded, the receipt being stored; when MarkAsRead
\* fails an error is offered to the sender's queue, nothing is published
\* and the connection stays open.
C21_ReadReceiptAfterPersist ==
    [][\A c \in Conns :
          HandlerStep(c, EventMessageRead)
              => /\ PublishesMessage
                    => /\ ~lastFrame'.failed
                       /\ <<msgChan'[Len(msgChan')].conv, UserOf(c)>> \in readReceipts'
                       /\ msgChan'[Len(msgChan')].event = EventMessageRead
                 /\ lastFrame'.failed
                    => /\ ErrorOffered(c)
                       /\ msgChan' = msgChan
                       /\ readReceipts' = readReceipts
                       /\ StaysOpen]_vars

(***************************************************************************)
(* C24                                                                     *)
(***************************************************************************)
\* C24: a typing.start or typing.stop frame changes the typing set of a
\* conversation, or publishes a typing event for it, only when the sender is
\* a member of that conversation.
C24_TypingNeedsMembership ==
    [][\A c \in Conns :
          (HandlerStep(c, "typing.start") \/ HandlerStep(c, "typing.stop"))
              => /\ \A conv \in Convs :
                       typingSet'[conv] # typingSet[conv]
                           => UserOf(c) \in Members(conv)
                 /\ typingChan' # typingChan
                       => LET ind == typingChan'[Len(typingChan')]
                          IN ind.user \in Members(ind.conv)]_vars

(***************************************************************************)
(* Vocabulary of the unregistration claims                                 *)
(***************************************************************************)
\* the step is the hub's processing of Unregister(c), whether it completes
\* or panics in close(client.send)
UnregisterOf(c) ==
    /\ hub.pc = "unregister"
    /\ hub.client = c
    /\ hub'.pc = "select" \/ crash' = "close of closed channel"

\* c's read loop has left its loop after a transport failure
Failed(c) == rp[c].pc \in {"unregister", "done"} /\ ~sock[c]

(***************************************************************************)
(* C22                                                                     *)
(***************************************************************************)
\* C22: after a transport failure on c both loops of c end and c is out of
\* the registry, eventually; and the hub's processing of Unregister(c)
\* leaves the hub running and changes neither the registry entry nor the
\* queue of any other connection, a newer connection of c's user included.
C22_FailureStaysLocal ==
    /\ \A c \in Conns :
          Failed(c) ~> (rp[c].pc = "done" /\ wp[c] = "done" /\ ~Registered(c))
    /\ [][\A c \in Conns :
             UnregisterOf(c)
                 => /\ crash' = crash
                    /\ \A d \in Conns \ {c} :
                          /\ Registered(d) => clients'[UserOf(d)] = d
                          /\ closed'[d] = closed[d]
                          /\ send'[d] = send[d]]_vars

(***************************************************************************)
(* C23                                                                     *)
(***************************************************************************)
\* C23: the hub's processing of Unregister(c) for a connection that is no
\* longer registered, its queue already closed by the broadcast loop's
\* overflow path, changes no registry entry, closes no queue and returns.
C23_UnregisterIsIdempotent ==
    [][\A c \in Conns :
          (UnregisterOf(c) /\ closed[c] /\ ~Registered(c))
              => /\ clients' = clients
                 /\ closed' = closed
                 /\ crash' = crash]_vars

(***************************************************************************)
(* C25                                                                     *)
(***************************************************************************)
\* the bridge takes the next event of the messages topic
BridgeRecvStep ==
    /\ bridge.pc = "select"
    /\ msgChan # <<>>
    /\ msgChan' = Tail(msgChan)

\* the message events on their way through the broadcast path
InBroadcastPath ==
    {broadcast[i] : i \in 1..Len(broadcast)}
        \cup (IF hub.pc = "broadcast" THEN {hub.message} ELSE {})
        \cup (IF bridge.pc = "blocked" THEN {bridge.message} ELSE {})

\* C25: a message.new event whose member resolution fails is handed to the
\* broadcast channel (at once, or when the channel has room) and not dropped,
\* and the broadcast loop offers it to every connection registered then; an
\* event whose resolution succeeds goes to SendToConversation with the
\* resolved members and never enters the broadcast path.
C25_FallbackIsBroadcast ==
    /\ [][(BridgeRecvStep /\ Head(msgChan).event = EventMessageNew)
            => LET ev == Head(msgChan)
               IN IF ev.id \in fallback'
                  THEN /\ \/ broadcast' = Append(broadcast, ev) /\ bridge' = BridgeIdle
                          \/ /\ bridge'.pc = "blocked"
                             /\ bridge'.message = ev
                             /\ broadcast' = broadcast
                       /\ send' = send
                  ELSE /\ bridge'.pc = "stcLookup"
                       /\ bridge'.message = ev
                       /\ bridge'.ids = Members(ev.conv)
                       /\ broadcast' = broadcast
                       /\ send' = send]_vars
    /\ [][(bridge.pc = "blocked" /\ bridge' # bridge)
            => broadcast' = Append(broadcast, bridge.message)]_vars
    /\ [][(hub.pc = "select" /\ hub'.pc = "broadcast")
            => /\ hub'.message = Head(broadcast)
               /\ hub'.todo = {u \in Users : clients[u] # NoClient}]_vars
    /\ [][(hub.pc = "broadcast" /\ hub' # hub)
            => \E u \in hub.todo :
                  /\ hub' = HubIdle \/ hub' = [hub EXCEPT !.todo = hub.todo \ {u}]
                  /\ HasRoom(clients[u])
                        => send' = [send EXCEPT ![clients[u]] = Append(@, hub.message)]]_vars
    /\ [](\A ev \in InBroadcastPath :
             ev.event = EventMessageNew => ev.id \in fallback)
    /\ []((bridge.pc \in {"stcLookup", "stcSend"}) => bridge.message.id \notin fallback)

\* a message.new whose resolution failed sits in the queue of a connection
\* whose user is not a member of the conversation
C25_Witness ==
    \E c \in Conns : \E i \in 1..Len(send[c]) :
       /\ send[c][i].event = EventMessageNew
       /\ send[c][i].id \in fallback
       /\ UserOf(c) \notin Members(send[c][i].conv)
       /\ send[c][i].origin = "remote"

(***************************************************************************)
(* C29                                                                     *)
(***************************************************************************)
\* c's handler leaves c.redis.PublishMessage
PublishStep(c) == rp[c].pc = "publish" /\ rp'[c].pc = "read"

\* C29: when the handler of a persisted message has called PublishMessage,
\* whether or not the bus took the event, the event is on its way to the
\* members registered on this process (on the process's subscription or on
\* a member's queue) and nothing is put on the sender's queue.
C29_LocalDeliveryWithoutBus ==
    [][\A c \in Conns :
          (/\ PublishStep(c)
           /\ rp[c].id \in stored
           /\ \E u \in Members(rp[c].conv) : clients[u] # NoClient)
              => LET ev == MessageNew(rp[c].id, rp[c].conv, "local")
                 IN /\ send'[c] = send[c]
                    /\ \/ \E i \in 1..Len(msgChan') : msgChan'[i] = ev
                       \/ \E d \in Conns :
                             /\ UserOf(d) \in Members(ev.conv)
                             /\ \E i \in 1..Len(send'[d]) : send'[d][i] = ev]_vars

(***************************************************************************)
(* C26                                                                     *)
(***************************************************************************)
\* a step places a message event on c's queue
Placed(c) ==
    /\ Len(send'[c]) = Len(send[c]) + 1
    /\ send'[c][Len(send'[c])].id # 0

\* each event is placed on a connection's queue at most once
AtMostOnce ==
    [][\A c \in Conns :
          Placed(c) => LET id == send'[c][Len(send'[c])].id
                       IN <<c, id>> \notin given /\ <<c, id>> \in given']_vars

\* C26 as stated: at most once, and a connection inserted in the registry
\* after an event was published never has that event placed on its queue.
C26_LateRegistrantNeverReceives ==
    AtMostOnce /\ [](given \cap late = {})

\* C26, amended: at most once, and a connection inserted in the registry
\* when a published event is no longer in flight (not on the subscription,
\* not held by the bridge for its user, not on the broadcast channel) never
\* has that event placed on its queue.
C26_AtMostOnceNoReplay ==
    AtMostOnce /\ [](given \cap tooLate = {})

\* an event was placed on one connection's queue, and another connection
\* registered when the event was no longer in flight
C26_Witness ==
    \E c, d \in Conns : \E id \in PublishedIds :
        <<c, id>> \in tooLate /\ <<d, id>> \in given

(***************************************************************************)
(* C27                                                                     *)
(***************************************************************************)
\* the place of an event in the order the messages topic hands to the bridge
TopicOrder(id) == CHOOSE i \in 1..Len(published) : published[i] = id

\* C27: two events of the messages topic that are on the same connection's
\* queue stand there in the order in which the bridge received them.
C27_TopicOrderKept ==
    \A c \in Conns : \A i, j \in 1..Len(send[c]) :
        (i < j /\ send[c][i].id # 0 /\ send[c][j].id # 0)
            => TopicOrder(send[c][i].id) < TopicOrder(send[c][j].id)

(***************************************************************************)
(* C28                                                                     *)
(***************************************************************************)
\* the writes of kind op that task i has called
CallsOf(i, op) == {k \in 1..Len(writes[i]) : writes[i][k].op = op}

\* a delete or mute write of task i has failed
WriteFailed(i) ==
    \E k \in 1..Len(writes[i]) :
        writes[i][k].op \in {"delete", "mute"} /\ ~writes[i][k].ok

\* C28: the bot calls the delete and the mute write of a message at most
\* once each, in one pass, whether they fail or not; whatever writes have
\* failed, the consumption loop can take the next event, and every event it
\* has taken is eventually processed to the end.
C28_FailedWriteIsNotRetried ==
    /\ [](\A i \in 1..MaxMsgs :
             /\ Cardinality(CallsOf(i, "delete")) <= 1
             /\ Cardinality(CallsOf(i, "mute")) <= 1)
    /\ [][\A i \in 1..MaxMsgs :
             writes'[i] # writes[i] => (writes[i] = <<>> /\ tasks'[i].pc = "done")]_vars
    /\ [](received < MaxMsgs => ENABLED (\E in \in FaultInputs : BotReceive(in[1], in[2], in[3])))
    /\ \A i \in 1..MaxMsgs : (tasks[i].pc # "none") ~> (tasks[i].pc = "done")

\* the mute and the delete of the spam enforcement of one message failed,
\* and the message received after it has been processed
C28_Witness ==
    \E i, j \in 1..MaxMsgs :
        /\ i < j
        /\ tasks[i].pc = "done"
        /\ Len(writes[i]) = 3
        /\ \A k \in 1..Len(writes[i]) : ~writes[i][k].ok
        /\ WriteFailed(i)
        /\ tasks[j].pc = "done"

(***************************************************************************)
(* C30                                                                     *)
(***************************************************************************)
\* the tasks of sender s that have been through the recentMu section
Windowed(s) ==
    {i \in 1..MaxMsgs : /\ tasks[i].sender = s
                        /\ tasks[i].pc \in {"enforce", "done"}
                        /\ tasks[i].matched = NoWord}

\* C30: while no entry is older than ten seconds, the window of a sender
\* holds one entry for each of the sender's tasks that went through the
\* spam check, in whatever order the goroutines ran, and the tasks with one
\* body counted different numbers of earlier repeats: 0, 1, ... k-1.
C30_NoWindowUpdateIsLost ==
    now <= Window =>
        \A s \in Users :
            /\ Len(recent[s]) = Cardinality(Windowed(s))
            /\ \A i, j \in Windowed(s) :
                  (i # j /\ tasks[i].body = tasks[j].body)
                      => tasks[i].repeatCount # tasks[j].repeatCount
            /\ \A i \in Windowed(s) :
                  tasks[i].repeatCount <
                      Cardinality({j \in Windowed(s) : tasks[j].body = tasks[i].body})

\* four tasks of A with one body ran their spam checks in the reverse of
\* the order of reception
C30_Witness ==
    /\ now <= Window
    /\ Windowed("A") = 1..MaxMsgs
    /\ \A i \in 1..MaxMsgs : tasks[i].body = Hi /\ tasks[i].repeatCount = MaxMsgs - i
    /\ Len(recent["A"]) = MaxMsgs

(***************************************************************************)
(* C31                                                                     *)
(***************************************************************************)
\* process p holds a bucket that no PostChat has checked for ten minutes
IdleBucket(p) ==
    /\ buckets[p] # NoBucket
    /\ wall - seen[p].at > StaleMs
    /\ \A i \in 1..MaxPosts : posts[i].proc = p => posts[i].pc \notin {"bucket", "allow"}

\* C31: a bucket that no request has checked for more than ten minutes is
\* eventually removed from the map by the sweep, unless a request checks it
\* again first.
C31_IdleBucketIsEvicted ==
    \A p \in Procs :
        IdleBucket(p) ~> (buckets[p] = NoBucket \/ ~IdleBucket(p))

(***************************************************************************)
(* C32                                                                     *)
(***************************************************************************)
\* the bridge's handling of a message event waits for room on h.broadcast
MessageStalled ==
    /\ bridge.pc = "blocked"
    /\ bridge.message.event = EventMessageNew

\* C32: while the bridge's handling of a message event is stalled on the
\* full broadcast channel, a presence event waiting on the presence topic
\* can be consumed.
C32_TopicsAreIndependent ==
    (Alive /\ MessageStalled /\ presenceChan # <<>>) => ENABLED BridgeRecvPresence

(***************************************************************************)
(* C33                                                                     *)
(***************************************************************************)
\* the hub has received Register(c) and has not yet run the case body
Inserting(c) == hub.pc = "register" /\ hub.client = c

\* C33: a frame handled by the read loop of c belongs to a connection the
\* hub has already inserted in the registry.
C33_ActiveOnlyOnceRegistered ==
    [][\A c \in Conns : FrameStep(c) => ~Inserting(c)]_vars

(***************************************************************************)
(* C34                                                                     *)
(***************************************************************************)
\* both loops of c have returned
LoopsEnded(c) == wp[c] = "done" /\ rp[c].pc = "done"

\* C34: once the hub has closed c's queue, the write loop takes the items
\* still queued from the head, in order, then leaves on the closed queue and
\* closes the transport, and the read loop leaves too: both loops have
\* eventually returned.
C34_ShutdownTerminates ==
    /\ \A c \in Conns : closed[c] ~> LoopsEnded(c)
    /\ [][\A c \in Conns :
             (closed[c] /\ wp[c] = "run" /\ wp'[c] # wp[c] /\ sock[c])
                 => send[c] = <<>> /\ ~sock'[c]]_vars
    /\ [][\A c \in Conns :
             (closed[c] /\ send'[c] # send[c]) => send'[c] = Tail(send[c])]_vars

(***************************************************************************)
(* C35                                                                     *)
(***************************************************************************)
\* C35: no outbound queue is closed a second time; the hub never panics
\* with "close of closed channel".
C35_NoQueueClosedTwice == crash # "close of closed channel"

(***************************************************************************)
(* C36                                                                     *)
(***************************************************************************)
\* the hub goroutine is in a case that holds h.mu.Lock()
HubLocked == hub.pc \in {"register", "unregister"}

\* C36: the registry changes only in a step of the hub made under the
\* exclusive lock, never while SendToConversation holds the read lock, and
\* the runtime never finds a map write overlapping a map read.
C36_RegistryWrittenUnderLock ==
    /\ [][clients' # clients => (HubLocked /\ ~RLocked)]_vars
    /\ [](crash # "concurrent map read and map write")

\* C37: while a principal is registered in a hub (of this process or of
\* another one), the presence store reports the principal as online: the
\* record does not lapse, and the unregistration of one connection does not
\* mark the principal offline while another connection of it is registered
RegisteredSomewhere(u) == clients[u] # NoClient \/ remote[u].on
C37_RegisteredIsOnline ==
    \A u \in Users : RegisteredSomewhere(u) => GetUserPresence(u) = "online"

\* C38: a principal with an unexpired mute in a conversation gets no message
\* persisted and published in that conversation, neither by the REST message
\* send nor by the WebSocket message.send frame
Accepted(id) == id \in stored' /\ msgChan' # msgChan
C38_MutedCannotPost ==
    /\ [][\A c \in Conns :
             PublishStep(c) /\ Accepted(rp[c].id)
                 => ~IsUserMuted(rp[c].conv, UserOf(c))]_vars
    /\ [][\A u \in Users, conv \in Convs :
             SendMessage(u, conv) /\ Accepted(nextID)
                 => ~IsUserMuted(conv, u)]_vars

\* C39: the mark-read handler publishes the message.read event whether or
\* not the reader is a member of the conversation it names; the bridge hands
\* the event to the broadcast channel (at once, or when the channel has
\* room), never to SendToConversation; and the broadcast loop offers it to
\* every connection registered then, member or not
ReadReceipt(id, conv) == MessageRead(id, conv, "local")
C39_ReadReceiptGoesToEveryone ==
    /\ [](\A c \in Conns, conv \in Convs :
             ENABLED ReadMessageRead(c, conv)
                 => ENABLED (/\ ReadMessageRead(c, conv)
                             /\ msgChan' = Append(msgChan, ReadReceipt(nextID, conv))))
    /\ [][(BridgeRecvStep /\ Head(msgChan).event = EventMessageRead)
            => LET ev == Head(msgChan)
               IN /\ \/ broadcast' = Append(broadcast, ev) /\ bridge' = BridgeIdle
                     \/ /\ bridge'.pc = "blocked"
                        /\ bridge'.message = ev
                        /\ broadcast' = broadcast
                  /\ send' = send]_vars
    /\ [][(hub.pc = "select" /\ hub'.pc = "broadcast"
                /\ hub'.message.event = EventMessageRead)
            => hub'.todo = {u \in Users : clients[u] # NoClient}]_vars
    /\ [][(hub.pc = "broadcast" /\ hub.message.event = EventMessageRead /\ hub' # hub)
            => \E u \in hub.todo :
                  /\ hub' = HubIdle \/ hub' = [hub EXCEPT !.todo = hub.todo \ {u}]
                  /\ HasRoom(clients[u])
                        => send' = [send EXCEPT ![clients[u]] = Append(@, hub.message)]]_vars
    /\ [](bridge.pc \in {"stcLookup", "stcSend"}
             => bridge.message.event # EventMessageRead)

\* the receipt of a reader who is not a member of the conversation sits in
\* the queue of a connection whose user is not a member either
C39_Witness ==
    \E c \in Conns : \E i \in 1..Len(send[c]) :
       /\ send[c][i].event = EventMessageRead
       /\ send[c][i].conv = "Y"
       /\ UserOf(c) \notin Members("Y")
       /\ <<"Y", "A">> \in readReceipts

\* the entries of arr with the given body that are no older than the window
\* at time t
Repeats(arr, t, body) ==
    Cardinality({k \in 1..Len(arr) : arr[k].body = body /\ t - arr[k].ts <= Window})

\* the step takes message i through the enforcement of the spam rule
SpamStep(i) == tasks[i].pc = "enforce" /\ tasks'[i].pc # "enforce"

\* C40: the spam trigger is not one-shot.  Every message that goes through
\* the window is recorded in it, a triggering one included; a message
\* triggers exactly when the sender's window holds three or more entries of
\* its body no older than 10 seconds, whatever their conversations and
\* whether or not one of them triggered before; and each trigger writes a
\* mute in the conversation of the triggering message, a timeout_spam log
\* entry and a deletion.
C40_SpamTriggerRepeats ==
    /\ [][\A i \in TaskIds :
             WindowStep(i)
                 => LET s == tasks[i].sender
                        arr == recent'[s]
                    IN /\ Len(arr) > 0
                       /\ arr[Len(arr)] = [body |-> tasks[i].body, ts |-> now]
                       /\ (tasks'[i].pc = "enforce")
                             <=> (Repeats(recent[s], now, tasks[i].body) >= SpamThreshold)]_vars
    /\ [][\A i \in TaskIds :
             SpamStep(i)
                 => /\ [conv |-> tasks[i].conv, user |-> tasks[i].sender,
                         exp |-> now + MuteLen] \in mutes'
                    /\ Len(logs'[i]) = Len(logs[i]) + 1
                    /\ logs'[i][Len(logs'[i])].action = "timeout_spam"
                    /\ i \in deleted']_vars

\* two messages of A have triggered the rule, the second one in Y, where A
\* sent fewer than three messages besides it: its count includes the
\* messages sent to X and the message that triggered before
C40_Witness ==
    \E i, j \in TaskIds :
       /\ i < j
       /\ tasks[i].pc = "done" /\ tasks[j].pc = "done"
       /\ IsSpam(tasks[i].repeatCount) /\ IsSpam(tasks[j].repeatCount)
       /\ tasks[i].conv = "X" /\ tasks[j].conv = "Y"
       /\ Cardinality({k \in TaskIds : tasks[k].conv = "Y"}) <= SpamThreshold
       /\ {i, j} \subseteq deleted
       /\ \E m \in mutes : m.conv = "X" /\ m.user = "A"
       /\ \E m \in mutes : m.conv = "Y" /\ m.user = "A"
       /\ logs[i] # <<>> /\ logs[j] # <<>>

====
